---- MODULE Spec2Model ----
(***************************************************************************)
(* A model of tools/compress.py: compress_pdf, _compress_page_images and   *)
(* _recompress_image, run by one or two callers on their own documents.    *)
(*                                                                         *)
(* A document is an arena of objects addressed by ObjIds and a sequence of *)
(* pages; a page's /Resources /XObject dictionary is the ordered list of   *)
(* the object ids its keys map to (two keys may map to one object).        *)
(*                                                                         *)
(* What the imaging and PDF libraries do with one object's bytes is part   *)
(* of the input: every object carries `fault`, the library step that       *)
(* raises when it is applied to this object.  Document-level library calls *)
(* (stat, open, page enumeration, remove_unreferenced_resources, save)     *)
(* either succeed or raise, as two actions.                                *)
(***************************************************************************)
EXTENDS Integers, Sequences, FiniteSets, TLC

VARIABLES
    QUALITY_SETTINGS,  \* compress.py:8 module-level tier table
    quality,           \* compress_pdf argument `quality`
    input,             \* the document behind input_path, as it was at the call
    pc,                \* position of each call in compress_pdf
    settings,          \* local `settings`
    original_size,     \* local `original_size`
    compressed_size,   \* local `compressed_size`
    handle,            \* the pikepdf handle of the with-block
    objs,              \* the opened document's objects (mutated in place)
    pageIdx,           \* position of `for page in pdf.pages`
    keyIdx,            \* position of `for key in list(xobjects.keys())`
    log,               \* entries looked at so far: page, key, object, passed on
    saved,             \* what pdf.save wrote to output_path
    removed,           \* remove_unreferenced_resources has run
    result,            \* the dict compress_pdf returned
    error,             \* the step whose exception left compress_pdf
    events,            \* the library calls each call has made, in order
    pages_str,         \* split.py: the page specification, split at its commas
    total_pages,       \* split.py: len(reader.pages)
    spc,               \* split.py: the position of split_pdf
    part,              \* split.py: the index of the part the loop is at
    pages,             \* split.py: the list parse_page_range builds
    page_indices,      \* split.py: what parse_page_range returned
    output_files,      \* split.py: the files split_pdf has written
    sign_pages,        \* sign_pdf.py: the pages argument, split at its commas
    sign_total,        \* sign_pdf.py: total_pages = len(reader.pages)
    sign_pc,           \* sign_pdf.py: the position of sign_pdf_with_text
    sign_part,         \* sign_pdf.py: the index of the part _parse_pages is at
    sign_result,       \* sign_pdf.py: the set `result` _parse_pages builds
    pages_to_sign,     \* sign_pdf.py: what _parse_pages returned
    sign_i,            \* sign_pdf.py: the index i of the loop over the pages
    signed,            \* sign_pdf.py: the indices of the pages signed
    request,           \* app.py: what each request carries
    rpc,               \* app.py: the position of each request in its handler
    temp_dir,          \* app.py: the directory get_temp_dir gave the request
    upload,            \* app.py: the index of the upload the handler is at
    pdf_paths,         \* app.py: the paths the handler saved uploads at
    registered,        \* app.py: after_this_request has taken the cleanup
    status,            \* app.py: the status of the response
    body,              \* app.py: the content of the file sent
    disk,              \* app.py: the directories under UPLOAD_FOLDER
    made,              \* app.py: the names uuid4 has given so far
    removed_by         \* app.py: the request whose cleanup removed a directory

vars == <<QUALITY_SETTINGS, quality, input, pc, settings, original_size,
          compressed_size, handle, objs, pageIdx, keyIdx, log, saved,
          removed, result, error, events, pages_str, total_pages, spc, part,
          pages, page_indices, output_files, sign_pages, sign_total, sign_pc,
          sign_part, sign_result, pages_to_sign, sign_i, signed, request,
          rpc, temp_dir, upload, pdf_paths, registered, status, body, disk,
          made, removed_by>>

\* the variables of split.py
splitVars ==
    <<pages_str, total_pages, spc, part, pages, page_indices, output_files>>

\* the variables of sign_pdf.py
signVars ==
    <<sign_pages, sign_total, sign_pc, sign_part, sign_result, pages_to_sign,
      sign_i, signed>>

\* the variables of app.py
appVars ==
    <<request, rpc, temp_dir, upload, pdf_paths, registered, status, body,
      disk, made, removed_by>>

\* the variables of compress.py
compressVars ==
    <<QUALITY_SETTINGS, quality, input, pc, settings, original_size,
      compressed_size, handle, objs, pageIdx, keyIdx, log, saved, removed,
      result, error, events>>

\* ------------------------------------------------------------------ bounds
MaxPages == 2
\* the longest part of a page specification
MaxPartLen == 3
\* the most pages of a document that is split
MaxTotal == 2
\* the most files of a merge request
MaxUploads == 3

Calls == {1, 2}
ObjIds == {1, 2}

\* compress.py:79  `if width < 100 or height < 100`
MinDim == 100

\* ------------------------------------------------------------- tier table
\* The table with the scales of low and medium exchanged.
TierTableSwapped ==
    [low    |-> [image_quality |-> 30, scale |-> 75],
     medium |-> [image_quality |-> 60, scale |-> 50],
     high   |-> [image_quality |-> 85, scale |-> 100]]

\* scale is kept in hundredths: 0.5, 0.75 and 1.0 are 50, 75 and 100.  All
\* three are exact binary fractions, so int(w * scale) is floor(w*scale).
TierTable ==
    [low    |-> [image_quality |-> 30, scale |-> 50],
     medium |-> [image_quality |-> 60, scale |-> 75],
     high   |-> [image_quality |-> 85, scale |-> 100]]

NoSettings == [image_quality |-> 0, scale |-> 0]

\* The lookup with "high" as the default.
LookupFallsBackToHigh(table, name) ==
    IF name \in DOMAIN table THEN table[name] ELSE table["high"]

\* QUALITY_SETTINGS.get(quality, QUALITY_SETTINGS["medium"])
LookupTier(table, name) ==
    IF name \in DOMAIN table THEN table[name] ELSE table["medium"]

\* int(x * scale) for x >= 0
Scaled(x, s) == (x * s.scale) \div 100

\* ---------------------------------------------------------------- objects
\* Width, Height: 0 stands for a missing entry as well as for 0 (the code
\* reads both with get(..., 0)).  BitsPerComponent: 0 stands for a missing
\* entry.  ColorSpace, Filter: "absent" stands for a missing entry.
\* data is the stream payload: raw samples of `len` bytes once decompressed,
\* or a JPEG of w x h pixels in `mode`; gen counts how often it was rewritten
\* and q is the quality it was last encoded with.
RawData(n) == [enc |-> "raw", w |-> 0, h |-> 0, mode |-> "none", len |-> n,
               q |-> 0, gen |-> 0]
JpegData(w, h, m) == [enc |-> "jpeg", w |-> w, h |-> h, mode |-> m, len |-> 0,
                      q |-> 0, gen |-> 0]
OtherData == [enc |-> "other", w |-> 0, h |-> 0, mode |-> "none", len |-> 0,
              q |-> 0, gen |-> 0]

\* The mode with every color space that is not RGB or CMYK read as gray.
ModeOfGrayDefault(cs) ==
    IF cs = "/DeviceRGB" THEN "RGB"
    ELSE IF cs = "/DeviceCMYK" THEN "CMYK"
    ELSE "L"

\* compress.py:105-110
ModeOf(cs) ==
    IF cs = "/DeviceGray" THEN "L"
    ELSE IF cs = "/DeviceCMYK" THEN "CMYK"
    ELSE "RGB"

\* compress.py:156
Components(mode) == IF mode = "RGB" THEN 3 ELSE IF mode = "CMYK" THEN 4 ELSE 1

\* int(xobj.get("/BitsPerComponent", 8))
Bpc(o) == IF o.BitsPerComponent = 0 THEN 8 ELSE o.BitsPerComponent

\* ------------------------------------------------------ _recompress_image
\* The JPEG that img.save(format="JPEG", quality=...) produces.
Encoded(old, w, h, m, s) ==
    [enc |-> "jpeg", w |-> w, h |-> h, mode |-> m, len |-> 0,
     q |-> s.image_quality, gen |-> old.gen + 1]

\* DctPath that sets /Width and /Height for every scale.
DctPathAlwaysSetsDims(o, s) ==
    LET scaling == s.scale < 100
        new_width == IF scaling THEN Scaled(o.data.w, s) ELSE o.data.w
        new_height == IF scaling THEN Scaled(o.data.h, s) ELSE o.data.h
    IN  IF o.fault = "decode" \/ o.data.enc # "jpeg" THEN o
        ELSE IF scaling /\ (o.fault = "resize" \/ new_width < 1 \/ new_height < 1)
            THEN o
        ELSE IF o.fault = "encode" THEN o
        ELSE IF o.fault = "write" THEN o
        ELSE [o EXCEPT
                !.data = Encoded(o.data, new_width, new_height, o.data.mode, s),
                !.Filter = "/DCTDecode",
                !.Width = new_width,
                !.Height = new_height]

\* compress.py:121-147, the branch for current_filter == "/DCTDecode".
\* Image.open reads the pixel size from the JPEG itself (img.width), not
\* from the dictionary; resize is called only when scale < 1.0 and raises
\* on a target below 1 pixel; the dictionary is touched after img.save.
\* xobj.write checks its arguments and then replaces data and filter in
\* one library call: a write that raises has changed nothing.
DctPath(o, s) ==
    LET scaling == s.scale < 100
        new_width == IF scaling THEN Scaled(o.data.w, s) ELSE o.data.w
        new_height == IF scaling THEN Scaled(o.data.h, s) ELSE o.data.h
    IN  IF o.fault = "decode" \/ o.data.enc # "jpeg" THEN o
        ELSE IF scaling /\ (o.fault = "resize" \/ new_width < 1 \/ new_height < 1)
            THEN o
        ELSE IF o.fault = "encode" THEN o
        ELSE IF o.fault = "write" THEN o
        ELSE [o EXCEPT
                !.data = Encoded(o.data, new_width, new_height, o.data.mode, s),
                !.Filter = "/DCTDecode",
                !.Width = IF scaling THEN new_width ELSE @,
                !.Height = IF scaling THEN new_height ELSE @]

\* FlatePath that leaves the /ColorSpace entry as it finds it.
FlatePathKeepsColorSpace(o, s) ==
    LET width == o.Width
        height == o.Height
        mode == ModeOf(o.ColorSpace)
        scaling == s.scale < 100
        new_width == IF scaling THEN Scaled(width, s) ELSE width
        new_height == IF scaling THEN Scaled(height, s) ELSE height
        out_mode == IF mode = "CMYK" THEN "RGB" ELSE mode
    IN  IF o.fault = "decode" \/ o.data.enc # "raw" THEN o
        ELSE IF o.data.len # width * height * Components(mode) THEN o
        ELSE IF scaling /\ (o.fault = "resize" \/ new_width < 1 \/ new_height < 1)
            THEN o
        ELSE IF o.fault = "encode" THEN o
        ELSE IF o.fault = "write" THEN o
        ELSE [o EXCEPT
                !.data = Encoded(o.data, new_width, new_height, out_mode, s),
                !.Filter = "/DCTDecode",
                !.Width = new_width,
                !.Height = new_height]

\* FlatePath whose write replaces the payload and then raises, before the
\* dictionary is brought up to date.
FlatePathTornWrite(o, s) ==
    LET width == o.Width
        height == o.Height
        mode == ModeOf(o.ColorSpace)
        scaling == s.scale < 100
        new_width == IF scaling THEN Scaled(width, s) ELSE width
        new_height == IF scaling THEN Scaled(height, s) ELSE height
        out_mode == IF mode = "CMYK" THEN "RGB" ELSE mode
    IN  IF o.fault = "decode" \/ o.data.enc # "raw" THEN o
        ELSE IF o.data.len # width * height * Components(mode) THEN o
        ELSE IF scaling /\ (o.fault = "resize" \/ new_width < 1 \/ new_height < 1)
            THEN o
        ELSE IF o.fault = "encode" THEN o
        ELSE IF o.fault = "write"
            THEN [o EXCEPT
                    !.data = Encoded(o.data, new_width, new_height, out_mode, s),
                    !.Filter = "/DCTDecode"]
        ELSE [o EXCEPT
                !.data = Encoded(o.data, new_width, new_height, out_mode, s),
                !.Filter = "/DCTDecode",
                !.ColorSpace = "/DeviceRGB",
                !.Width = new_width,
                !.Height = new_height]

\* FlatePath without the comparison of the decompressed length.
FlatePathAnyLength(o, s) ==
    LET width == o.Width
        height == o.Height
        mode == ModeOf(o.ColorSpace)
        scaling == s.scale < 100
        new_width == IF scaling THEN Scaled(width, s) ELSE width
        new_height == IF scaling THEN Scaled(height, s) ELSE height
        out_mode == IF mode = "CMYK" THEN "RGB" ELSE mode
    IN  IF o.fault = "decode" \/ o.data.enc # "raw" THEN o
        ELSE IF scaling /\ (o.fault = "resize" \/ new_width < 1 \/ new_height < 1)
            THEN o
        ELSE IF o.fault = "encode" THEN o
        ELSE IF o.fault = "write" THEN o
        ELSE [o EXCEPT
                !.data = Encoded(o.data, new_width, new_height, out_mode, s),
                !.Filter = "/DCTDecode",
                !.ColorSpace = "/DeviceRGB",
                !.Width = new_width,
                !.Height = new_height]

\* FlatePath with the dictionary's Width and Height set right after the
\* resize, before the JPEG is encoded.
FlatePathEarlyDims(o, s) ==
    LET width == o.Width
        height == o.Height
        mode == ModeOf(o.ColorSpace)
        scaling == s.scale < 100
        new_width == IF scaling THEN Scaled(width, s) ELSE width
        new_height == IF scaling THEN Scaled(height, s) ELSE height
        out_mode == IF mode = "CMYK" THEN "RGB" ELSE mode
    IN  IF o.fault = "decode" \/ o.data.enc # "raw" THEN o
        ELSE IF o.data.len # width * height * Components(mode) THEN o
        ELSE IF scaling /\ (o.fault = "resize" \/ new_width < 1 \/ new_height < 1)
            THEN o
        ELSE IF o.fault = "encode"
            THEN [o EXCEPT !.Width = new_width, !.Height = new_height]
        ELSE IF o.fault = "write" THEN o
        ELSE [o EXCEPT
                !.data = Encoded(o.data, new_width, new_height, out_mode, s),
                !.Filter = "/DCTDecode",
                !.ColorSpace = "/DeviceRGB",
                !.Width = new_width,
                !.Height = new_height]

\* compress.py:150-188, the branch for "/FlateDecode" or no filter.
\* read_bytes decompresses; the length is compared with
\* width * height * components; CMYK is converted to RGB before saving.
FlatePath(o, s) ==
    LET width == o.Width
        height == o.Height
        mode == ModeOf(o.ColorSpace)
        expected_size == width * height * Components(mode)
        scaling == s.scale < 100
        new_width == IF scaling THEN Scaled(width, s) ELSE width
        new_height == IF scaling THEN Scaled(height, s) ELSE height
        out_mode == IF mode = "CMYK" THEN "RGB" ELSE mode
    IN  IF o.fault = "decode" \/ o.data.enc # "raw" THEN o
        ELSE IF o.data.len # expected_size THEN o
        ELSE IF scaling /\ (o.fault = "resize" \/ new_width < 1 \/ new_height < 1)
            THEN o
        ELSE IF o.fault = "encode" THEN o
        ELSE IF o.fault = "write" THEN o
        ELSE [o EXCEPT
                !.data = Encoded(o.data, new_width, new_height, out_mode, s),
                !.Filter = "/DCTDecode",
                !.ColorSpace = "/DeviceRGB",
                !.Width = new_width,
                !.Height = new_height]

\* _recompress_image without the test of BitsPerComponent.
recompress_image_any_depth(o, s) ==
    IF o.fault = "read_raw" THEN o
    ELSE IF o.Filter = "/DCTDecode" THEN DctPath(o, s)
    ELSE IF o.Filter = "/FlateDecode" \/ o.Filter = "absent" THEN FlatePath(o, s)
    ELSE o

\* compress.py:93-191
recompress_image(o, s) ==
    IF o.fault = "read_raw" THEN o
    ELSE IF Bpc(o) # 8 THEN o
    ELSE IF o.Filter = "/DCTDecode" THEN DctPath(o, s)
    ELSE IF o.Filter = "/FlateDecode" \/ o.Filter = "absent" THEN FlatePath(o, s)
    ELSE o

\* ------------------------------------------------- _compress_page_images
\* The scan without the test of the Subtype.
ScanAcceptsAnySubtype(o) ==
    /\ o.kind # "broken"
    /\ o.kind # "nonstream"
    /\ ~(o.Width = 0 \/ o.Height = 0)
    /\ ~(o.Width < MinDim \/ o.Height < MinDim)

\* The scan with `and` for `or` in the test of the small images.
ScanAcceptsOneSmallSide(o) ==
    /\ o.kind # "broken"
    /\ o.kind # "nonstream"
    /\ o.kind = "image"
    /\ ~(o.Width = 0 \/ o.Height = 0)
    /\ ~(o.Width < MinDim /\ o.Height < MinDim)

\* compress.py:63-80: the entry reaches _recompress_image.  kind "broken"
\* is an entry whose lookup or whose int(Width)/int(Height) raises.
ScanAccepts(o) ==
    /\ o.kind # "broken"
    /\ o.kind # "nonstream"
    /\ o.kind = "image"
    /\ ~(o.Width = 0 \/ o.Height = 0)
    /\ ~(o.Width < MinDim \/ o.Height < MinDim)

\* compress.py:62-87, one turn of the loop over the keys
ProcessEntry(o, s) == IF ScanAccepts(o) THEN recompress_image(o, s) ELSE o

\* compress.py:63-73: the statements of the loop body that raise on this entry
EntryRaises(o) == o.kind = "broken"

\* The handler leaving the loop (`break`), or re-raising, where the code
\* continues.
EntryHandlerBreaks(raised) == IF raised THEN "break" ELSE "continue"
EntryHandlerReraises(raised) == IF raised THEN "raise" ELSE "continue"

\* compress.py:85-87: `except Exception: continue`, what the loop does
\* after a turn, whether or not the turn raised
EntryHandler(raised) == "continue"

\* compress.py:52-61: what the page yields before the loop starts.  A page
\* without /Resources or without /XObject returns; a malformed dictionary
\* raises into the outer except, which passes.
PageKeys(page) == IF page.res = "ok" THEN page.xobjects ELSE <<>>

\* compress.py:52-61: the statements before the loop raise on this page
PageScanRaises(page) == page.res = "malformed"

\* The outer handler re-raising, where the code passes.
PageHandlerReraises(raised) == IF raised THEN "raise" ELSE "pass"

\* compress.py:89-90: `except Exception: pass`
PageHandler(raised) == "pass"

\* ------------------------------------------------------------------ stats
\* The quotient cut off below instead of rounded.
RoundDivTruncates(n, d) == n \div d

\* n / d rounded to the nearest integer, ties to even (d > 0): Python's
\* round() on the exact quotient.
RoundDiv(n, d) ==
    LET q == n \div d
        r == n - q * d
    IN  IF 2 * r < d THEN q
        ELSE IF 2 * r > d THEN q + 1
        ELSE IF q % 2 = 0 THEN q ELSE q + 1

\* compress.py:45, in tenths of a percent:
\* round((1 - compressed_size / original_size) * 100, 1) if original_size > 0 else 0
ReductionPercent(o, c) ==
    IF o > 0 THEN RoundDiv(1000 * (o - c), o) ELSE 0

\* compress.py:42-46
Stats(o, c) ==
    [original_size |-> o, compressed_size |-> c,
     reduction_percent |-> ReductionPercent(o, c)]

NoStats == [original_size |-> 0 - 1, compressed_size |-> 0 - 1,
            reduction_percent |-> 0]

\* ----------------------------------------------------------------- inputs
Obj(kind, d, cs, bpc, f, data, fault) ==
    [kind |-> kind, Width |-> d[1], Height |-> d[2], ColorSpace |-> cs,
     BitsPerComponent |-> bpc, Filter |-> f, data |-> data, fault |-> fault]

TierNames == {"low", "medium", "high", "ultra"}

\* st_size of the input file and of the written file
Sizes == {0, 1500, 7000}

Dims == {<<0, 600>>, <<800, 0>>, <<99, 600>>, <<800, 99>>, <<100, 101>>,
         <<800, 600>>}
BigDims == {d \in Dims : d[1] >= MinDim /\ d[2] >= MinDim}
ColorSpaces == {"/DeviceGray", "/DeviceRGB", "/DeviceCMYK", "/ICCBased",
                "absent"}
BitDepths == {0, 1, 8, 16}
Filters == {"/DCTDecode", "/FlateDecode", "absent", "/JPXDecode"}
Faults == {"none", "read_raw", "decode", "resize", "encode", "write"}

\* The payload a well-formed image of these entries holds: a JPEG of the
\* declared size (800 x 600 where the entry is missing), or the samples,
\* Width * Height * components * BitsPerComponent / 8 bytes.
NaturalData(d, cs, bpc, f) ==
    IF f = "/DCTDecode"
        THEN JpegData(IF d[1] = 0 THEN 800 ELSE d[1],
                      IF d[2] = 0 THEN 600 ELSE d[2], ModeOf(cs))
    ELSE IF f \in {"/FlateDecode", "absent"}
        THEN RawData((d[1] * d[2] * Components(ModeOf(cs))
                      * (IF bpc = 0 THEN 8 ELSE bpc)) \div 8)
    ELSE OtherData

\* Payloads that disagree with the dictionary: a JPEG of another size (one
\* of them a single pixel), samples one byte too long.
OddData(d, cs, f) ==
    IF f = "/DCTDecode"
        THEN {JpegData(640, 480, ModeOf(cs)), JpegData(1, 1, ModeOf(cs))}
        ELSE {RawData(d[1] * d[2] * Components(ModeOf(cs)) + 1)}

MetadataImages ==
    {Obj("image", d, cs, b, f, NaturalData(d, cs, b, f), "none") :
        d \in Dims, cs \in ColorSpaces, b \in BitDepths, f \in Filters}

PathImages ==
    UNION {{Obj("image", d, cs, 8, f, data, fault) :
                data \in {NaturalData(d, cs, 8, f)} \cup OddData(d, cs, f),
                fault \in Faults} :
           d \in BigDims, cs \in ColorSpaces, f \in Filters \ {"/JPXDecode"}}

Form == Obj("form", <<0, 0>>, "absent", 0, "/FlateDecode", OtherData, "none")
NonStream == [Form EXCEPT !.kind = "nonstream", !.Filter = "absent"]
Broken == [Form EXCEPT !.kind = "broken"]

\* An image each codec path recompresses.
GoodFlate == Obj("image", <<800, 600>>, "/DeviceRGB", 8, "/FlateDecode",
                 RawData(800 * 600 * 3), "none")
GoodDct == Obj("image", <<800, 600>>, "/DeviceRGB", 8, "/DCTDecode",
               JpegData(800, 600, "RGB"), "none")

\* Streams and dictionaries that are no image and yet carry the entries of
\* a sound one.
FormWithDims == [GoodFlate EXCEPT !.kind = "form"]
NonStreamWithDims == [GoodFlate EXCEPT !.kind = "nonstream"]

Images == MetadataImages \cup PathImages
            \cup {Form, NonStream, Broken, FormWithDims, NonStreamWithDims}

\* The images the multi-page documents are built from: object 1 is one an
\* attempt on which fails or is refused, object 2 one that recompresses.
FailingImages ==
    {Broken,
     [GoodFlate EXCEPT !.BitsPerComponent = 16, !.data = RawData(800 * 600 * 6)],
     [GoodFlate EXCEPT !.data = RawData(800 * 600 * 3 + 1)],
     [GoodDct EXCEPT !.fault = "decode"],
     [GoodFlate EXCEPT !.fault = "resize"],
     [GoodDct EXCEPT !.fault = "encode"]}
GoodImages == {GoodFlate, GoodDct}

Page(r, k) == [res |-> r, xobjects |-> k]
KeyLists == {<<1>>, <<2>>, <<1, 2>>, <<2, 1>>, <<2, 2>>}
PageLayouts ==
    {Page(r, <<>>) : r \in {"none", "noxobj"}}
        \cup {Page("malformed", <<2>>)}
        \cup {Page("ok", k) : k \in KeyLists}

RECURSIVE PageSeqs(_)
PageSeqs(n) ==
    IF n = 0 THEN {<<>>}
    ELSE {Append(ps, p) : ps \in PageSeqs(n - 1), p \in PageLayouts}

Arena(a, b) == [i \in ObjIds |-> IF i = 1 THEN a ELSE b]

Doc(o, ps, sz) == [objs |-> o, pages |-> ps, size |-> sz]

SingleImageDocs ==
    {Doc(Arena(x, Form), <<Page("ok", <<1>>)>>, sz) :
        x \in Images, sz \in Sizes}

StructuredDocs ==
    {Doc(Arena(a, b), ps, sz) :
        a \in FailingImages, b \in GoodImages,
        ps \in UNION {PageSeqs(n) : n \in 1..MaxPages}, sz \in {1500}}

InputDocs == SingleImageDocs \cup StructuredDocs

\* ------------------------------------------------------------ compress_pdf
\* The locals of a call kept in one place that every call writes.
UpdShared(f, c, v) == [d \in DOMAIN f |-> v]

\* the locals of compress_pdf belong to the call: a step of call c writes
\* the component of c
Upd(f, c, v) == [f EXCEPT ![c] = v]

Event(step, n) == [step |-> step, n |-> n]
Did(c, step, n) == events' = Upd(events, c, Append(events[c], Event(step, n)))

\* The pages of the document taken last to first.
PagesLastToFirst(c) ==
    [i \in 1..Len(input[c].pages) |->
        input[c].pages[Len(input[c].pages) + 1 - i]]

NotSaved == [written |-> FALSE, objs |-> <<>>]

Pages(c) == input[c].pages
Keys(c) == PageKeys(Pages(c)[pageIdx[c]])

IdleDoc == Doc(Arena(Form, Form), <<>>, 0)

Fresh ==
    /\ QUALITY_SETTINGS = TierTable
    /\ objs = [c \in Calls |-> input[c].objs]
    /\ settings = [c \in Calls |-> NoSettings]
    /\ original_size = [c \in Calls |-> 0]
    /\ compressed_size = [c \in Calls |-> 0]
    /\ handle = [c \in Calls |-> "none"]
    /\ pageIdx = [c \in Calls |-> 0]
    /\ keyIdx = [c \in Calls |-> 0]
    /\ log = [c \in Calls |-> <<>>]
    /\ saved = [c \in Calls |-> NotSaved]
    /\ removed = [c \in Calls |-> FALSE]
    /\ result = [c \in Calls |-> NoStats]
    /\ error = [c \in Calls |-> "none"]
    /\ events = [c \in Calls |-> <<>>]

\* split_pdf has not been called
SplitIdle ==
    /\ pages_str = <<>>
    /\ total_pages = 0
    /\ spc = "idle"
    /\ part = 0
    /\ pages = <<>>
    /\ page_indices = <<>>
    /\ output_files = <<>>

\* sign_pdf_with_text has not been called
SignIdle ==
    /\ sign_pages = <<>>
    /\ sign_total = 0
    /\ sign_pc = "idle"
    /\ sign_part = 0
    /\ sign_result = {}
    /\ pages_to_sign = {}
    /\ sign_i = 0
    /\ signed = {}

\* the requests that are handled at the same time, and the names uuid4
\* gives to their directories
Reqs == {1, 2}
DirNames == {1, 2}
NoDir == 0

NoRequest == [kind |-> "none", files |-> <<>>, multi |-> FALSE]
NoFiles == [n \in {} |-> <<>>]
Gone == [exists |-> FALSE, files |-> NoFiles]

\* no request has reached the server and temp_uploads is empty
AppIdle ==
    /\ request = [r \in Reqs |-> NoRequest]
    /\ rpc = [r \in Reqs |-> "idle"]
    /\ temp_dir = [r \in Reqs |-> NoDir]
    /\ upload = [r \in Reqs |-> 0]
    /\ pdf_paths = [r \in Reqs |-> <<>>]
    /\ registered = [r \in Reqs |-> FALSE]
    /\ status = [r \in Reqs |-> 0]
    /\ body = [r \in Reqs |-> <<>>]
    /\ disk = [d \in DirNames |-> Gone]
    /\ made = {}
    /\ removed_by = [d \in DirNames |-> 0]

\* One call of compress_pdf (call 1) on any input document with any tier
\* name; call 2 is never made.
Init ==
    /\ \E doc \in InputDocs, tier \in TierNames :
          /\ input = [c \in Calls |-> IF c = 1 THEN doc ELSE IdleDoc]
          /\ quality = [c \in Calls |-> IF c = 1 THEN tier ELSE "medium"]
    /\ pc = [c \in Calls |-> IF c = 1 THEN "start" ELSE "idle"]
    /\ Fresh
    /\ SplitIdle
    /\ SignIdle
    /\ AppIdle

\* The exception leaving a block that does not close the handle.
RaiseLeavesOpen(c, step) ==
    /\ pc' = Upd(pc, c, "raised")
    /\ error' = Upd(error, c, step)
    /\ UNCHANGED <<splitVars, signVars, appVars>>
    /\ UNCHANGED <<QUALITY_SETTINGS, quality, input, settings, original_size,
                   compressed_size, handle, objs, pageIdx, keyIdx, log, saved,
                   removed, result, events>>

\* An exception leaves compress_pdf at `step`; inside the with-block the
\* context manager closes the handle on the way out (compress.py:24).
Raise(c, step) ==
    /\ pc' = Upd(pc, c, "raised")
    /\ error' = Upd(error, c, step)
    /\ handle' = Upd(handle, c, IF handle[c] = "open" THEN "closed" ELSE handle[c])
    /\ UNCHANGED <<splitVars, signVars, appVars>>
    /\ UNCHANGED <<QUALITY_SETTINGS, quality, input, settings, original_size,
                   compressed_size, objs, pageIdx, keyIdx, log, saved, removed,
                   result, events>>

\* compress.py:21
Lookup(c) ==
    /\ pc[c] = "start"
    /\ settings' = Upd(settings, c, LookupTier(QUALITY_SETTINGS, quality[c]))
    /\ pc' = Upd(pc, c, "stat")
    /\ UNCHANGED <<splitVars, signVars, appVars>>
    /\ UNCHANGED <<QUALITY_SETTINGS, quality, input, original_size,
                   compressed_size, handle, objs, pageIdx, keyIdx, log, saved,
                   removed, result, error, events>>

\* compress.py:22
StatInput(c) ==
    /\ pc[c] = "stat"
    /\ Did(c, "size_in", 0)
    /\ original_size' = Upd(original_size, c, input[c].size)
    /\ pc' = Upd(pc, c, "open")
    /\ UNCHANGED <<splitVars, signVars, appVars>>
    /\ UNCHANGED <<QUALITY_SETTINGS, quality, input, settings,
                   compressed_size, handle, objs, pageIdx, keyIdx, log, saved,
                   removed, result, error>>

\* compress.py:22, input_path does not exist
StatInputFails(c) == pc[c] = "stat" /\ Raise(c, "stat_input")

\* compress.py:24.  A file of no bytes holds no PDF: pikepdf.open raises.
Open(c) ==
    /\ pc[c] = "open"
    /\ Did(c, "open", 0)
    /\ input[c].size > 0
    /\ handle' = Upd(handle, c, "open")
    /\ pageIdx' = Upd(pageIdx, c, 1)
    /\ pc' = Upd(pc, c, "pages")
    /\ UNCHANGED <<splitVars, signVars, appVars>>
    /\ UNCHANGED <<QUALITY_SETTINGS, quality, input, settings, original_size,
                   compressed_size, objs, keyIdx, log, saved, removed, result,
                   error>>

\* compress.py:24, the file is not a readable PDF
OpenFails(c) == pc[c] = "open" /\ Raise(c, "open")

\* compress.py:26, pdf.pages cannot be enumerated (damaged page tree)
PagesFail(c) == pc[c] = "pages" /\ Raise(c, "pages")

\* compress.py:26-27 with 51-61: the next page is handed to
\* _compress_page_images, which returns at once or starts its loop
BeginPage(c) ==
    /\ pc[c] = "pages"
    /\ pageIdx[c] <= Len(Pages(c))
    /\ Did(c, "page", pageIdx[c])
    /\ LET after == PageHandler(PageScanRaises(Pages(c)[pageIdx[c]]))
           loop == after # "raise" /\ Keys(c) # <<>>
       IN  /\ pc' = Upd(pc, c, IF after = "raise" THEN "raised"
                               ELSE IF loop THEN "keys" ELSE "pages")
           /\ keyIdx' = Upd(keyIdx, c, IF loop THEN 1 ELSE keyIdx[c])
           /\ pageIdx' = Upd(pageIdx, c, IF loop \/ after = "raise"
                                         THEN pageIdx[c] ELSE pageIdx[c] + 1)
           /\ error' = Upd(error, c, IF after = "raise" THEN "page" ELSE error[c])
           /\ handle' = Upd(handle, c, IF after = "raise" THEN "closed" ELSE handle[c])
    /\ UNCHANGED <<splitVars, signVars, appVars>>
    /\ UNCHANGED <<QUALITY_SETTINGS, quality, input, settings, original_size,
                   compressed_size, objs, log, saved, removed, result>>

\* compress.py:61-87, one key of the page
ScanEntry(c) ==
    /\ pc[c] = "keys"
    /\ Did(c, "entry", pageIdx[c])
    /\ LET id == Keys(c)[keyIdx[c]]
           o == objs[c][id]
           after == EntryHandler(EntryRaises(o))
           more == after = "continue" /\ keyIdx[c] < Len(Keys(c))
       IN  /\ objs' = [objs EXCEPT ![c][id] = ProcessEntry(o, settings[c])]
           /\ log' = Upd(log, c, Append(log[c],
                        [page |-> pageIdx[c], key |-> keyIdx[c], obj |-> id,
                         seen |-> o, passed |-> ScanAccepts(o),
                         after |-> ProcessEntry(o, settings[c])]))
           /\ keyIdx' = Upd(keyIdx, c, IF more THEN keyIdx[c] + 1 ELSE 0)
           /\ pageIdx' = Upd(pageIdx, c,
                             IF more \/ after = "raise" THEN pageIdx[c]
                             ELSE pageIdx[c] + 1)
           /\ pc' = Upd(pc, c, IF after = "raise" THEN "raised"
                               ELSE IF more THEN "keys" ELSE "pages")
           /\ error' = Upd(error, c, IF after = "raise" THEN "image" ELSE error[c])
           /\ handle' = Upd(handle, c, IF after = "raise" THEN "closed" ELSE handle[c])
    /\ UNCHANGED <<splitVars, signVars, appVars>>
    /\ UNCHANGED <<QUALITY_SETTINGS, quality, input, settings, original_size,
                   compressed_size, saved, removed, result>>

\* compress.py:26, the loop over the pages ends
EndPages(c) ==
    /\ pc[c] = "pages"
    /\ pageIdx[c] > Len(Pages(c))
    /\ pc' = Upd(pc, c, "remove")
    /\ UNCHANGED <<splitVars, signVars, appVars>>
    /\ UNCHANGED <<QUALITY_SETTINGS, quality, input, settings, original_size,
                   compressed_size, handle, objs, pageIdx, keyIdx, log, saved,
                   removed, result, error, events>>

\* compress.py:30
RemoveUnreferenced(c) ==
    /\ pc[c] = "remove"
    /\ Did(c, "remove", 0)
    /\ removed' = Upd(removed, c, TRUE)
    /\ pc' = Upd(pc, c, "save")
    /\ UNCHANGED <<splitVars, signVars, appVars>>
    /\ UNCHANGED <<QUALITY_SETTINGS, quality, input, settings, original_size,
                   compressed_size, handle, objs, pageIdx, keyIdx, log, saved,
                   result, error>>

\* compress.py:30, the library raises
RemoveFails(c) == pc[c] = "remove" /\ Raise(c, "remove")

\* compress.py:33-38
Save(c) ==
    /\ pc[c] = "save"
    /\ Did(c, "save", 0)
    /\ saved' = Upd(saved, c, [written |-> TRUE, objs |-> objs[c]])
    /\ pc' = Upd(pc, c, "exit")
    /\ UNCHANGED <<splitVars, signVars, appVars>>
    /\ UNCHANGED <<QUALITY_SETTINGS, quality, input, settings, original_size,
                   compressed_size, handle, objs, pageIdx, keyIdx, log, removed,
                   result, error>>

\* compress.py:33, output_path cannot be written
SaveFails(c) == pc[c] = "save" /\ Raise(c, "save")

\* compress.py:24, the with-block is left after the save
ExitWith(c) ==
    /\ pc[c] = "exit"
    /\ Did(c, "close", 0)
    /\ handle' = Upd(handle, c, "closed")
    /\ pc' = Upd(pc, c, "stat_out")
    /\ UNCHANGED <<splitVars, signVars, appVars>>
    /\ UNCHANGED <<QUALITY_SETTINGS, quality, input, settings, original_size,
                   compressed_size, objs, pageIdx, keyIdx, log, saved, removed,
                   result, error>>

\* compress.py:40, the size the library gave the written file
StatOutput(c) ==
    /\ pc[c] = "stat_out"
    /\ Did(c, "size_out", 0)
    /\ \E sz \in Sizes \ {0} : compressed_size' = Upd(compressed_size, c, sz)
    /\ pc' = Upd(pc, c, "return")
    /\ UNCHANGED <<splitVars, signVars, appVars>>
    /\ UNCHANGED <<QUALITY_SETTINGS, quality, input, settings, original_size,
                   handle, objs, pageIdx, keyIdx, log, saved, removed, result,
                   error>>

\* compress.py:40, output_path is gone
StatOutputFails(c) == pc[c] = "stat_out" /\ Raise(c, "stat_output")

\* compress.py:42-46
Return(c) ==
    /\ pc[c] = "return"
    /\ result' = Upd(result, c, Stats(original_size[c], compressed_size[c]))
    /\ pc' = Upd(pc, c, "done")
    /\ UNCHANGED <<splitVars, signVars, appVars>>
    /\ UNCHANGED <<QUALITY_SETTINGS, quality, input, settings, original_size,
                   compressed_size, handle, objs, pageIdx, keyIdx, log, saved,
                   removed, error, events>>

Next ==
    \E c \in Calls :
        \/ Lookup(c)
        \/ StatInput(c)
        \/ StatInputFails(c)
        \/ Open(c)
        \/ OpenFails(c)
        \/ PagesFail(c)
        \/ BeginPage(c)
        \/ ScanEntry(c)
        \/ EndPages(c)
        \/ RemoveUnreferenced(c)
        \/ RemoveFails(c)
        \/ Save(c)
        \/ SaveFails(c)
        \/ ExitWith(c)
        \/ StatOutput(c)
        \/ StatOutputFails(c)
        \/ Return(c)

Spec == Init /\ [][Next]_vars

\* Two calls of compress_pdf whose steps interleave, each on its own copy
\* of the same document and with its own tier name.
PairDocs ==
    {Doc(Arena(a, GoodFlate), ps, 1500) :
        a \in {Broken, GoodDct, [GoodDct EXCEPT !.Width = 100, !.Height = 101,
                                              !.data = JpegData(100, 101, "RGB")]},
        ps \in {<<Page("ok", <<1, 2>>)>>,
                <<Page("ok", <<2>>), Page("ok", <<2, 1>>)>>}}

InitPair ==
    /\ \E doc \in PairDocs, t1 \in TierNames, t2 \in TierNames :
          /\ input = [c \in Calls |-> doc]
          /\ quality = [c \in Calls |-> IF c = 1 THEN t1 ELSE t2]
    /\ pc = [c \in Calls |-> "start"]
    /\ Fresh
    /\ SplitIdle
    /\ SignIdle
    /\ AppIdle

SpecPair == InitPair /\ [][Next]_vars

\* ---------------------------------------------------------------- split.py
\* The characters of the page specifications tried.
Chars == {"0", "1", "2", "3", "-"}
DigitChars == {"0", "1", "2", "3", "4", "5", "6", "7", "8", "9"}

DigitValue(ch) ==
    CASE ch = "0" -> 0 [] ch = "1" -> 1 [] ch = "2" -> 2 [] ch = "3" -> 3
      [] ch = "4" -> 4 [] ch = "5" -> 5 [] ch = "6" -> 6 [] ch = "7" -> 7
      [] ch = "8" -> 8 [] ch = "9" -> 9

\* str.lower() on the letters tried
Lower(ch) == IF ch = "A" THEN "a" ELSE IF ch = "L" THEN "l" ELSE ch
LowerText(t) == [i \in 1..Len(t) |-> Lower(t[i])]

\* split.py:7, `pages_str.lower() == "all"`: the specification has no comma
\* and reads all
IsAll(ps) == Len(ps) = 1 /\ LowerText(ps[1]) = <<"a", "l", "l">>

\* split.py:15, `"-" in part`
DashAt(t) == {i \in 1..Len(t) : t[i] = "-"}
HasDash(t) == DashAt(t) # {}

\* split.py:16, `start, end = part.split("-")` needs exactly two pieces
UnpackRaises(t) == Cardinality(DashAt(t)) # 1
StartText(t) == SubSeq(t, 1, (CHOOSE k \in DashAt(t) : TRUE) - 1)
EndText(t) == SubSeq(t, (CHOOSE k \in DashAt(t) : TRUE) + 1, Len(t))

\* int(text) raises ValueError on the empty text and on a text with a
\* character that is no digit
IntRaises(t) == t = <<>> \/ \E i \in 1..Len(t) : t[i] \notin DigitChars

RECURSIVE ToInt(_)
ToInt(t) ==
    IF t = <<>> THEN 0
    ELSE 10 * ToInt(SubSeq(t, 1, Len(t) - 1)) + DigitValue(t[Len(t)])

Min(a, b) == IF a < b THEN a ELSE b

\* list(range(start, stop))
Range(start, stop) ==
    [i \in 1..(IF stop > start THEN stop - start ELSE 0) |-> start + i - 1]

\* split.py:16-21: a statement of the loop body raises on this part
PartRaises(t) ==
    IF HasDash(t)
        THEN UnpackRaises(t) \/ IntRaises(StartText(t)) \/ IntRaises(EndText(t))
        ELSE IntRaises(t)

\* split.py:15-23: what one part adds to `pages`
PartPages(t, total) ==
    IF HasDash(t)
        THEN LET start == ToInt(StartText(t)) - 1
                 end == ToInt(EndText(t))
             IN  Range(start, Min(end, total))
        ELSE LET page == ToInt(t) - 1
             IN  IF 0 <= page /\ page < total THEN <<page>> ELSE <<>>

\* split.py:25, sorted(set(pages))
Elements(seq) == {seq[i] : i \in 1..Len(seq)}

RECURSIVE Sorted(_)
Sorted(S) ==
    IF S = {} THEN <<>>
    ELSE LET m == CHOOSE x \in S : \A y \in S : x <= y
         IN  <<m>> \o Sorted(S \ {m})

\* split.py:38, reader.pages[page_idx]: a negative index counts from the
\* end, an index outside -total..total-1 raises IndexError
IndexRaises(idx, total) == idx < 0 - total \/ idx >= total
PageAt(idx, total) == IF idx < 0 THEN total + idx + 1 ELSE idx + 1

\* the page specifications tried: one part of up to MaxPartLen characters,
\* or the word all, alone or followed by a second part
PartTexts ==
    UNION {[1..n -> Chars] : n \in 0..MaxPartLen}
        \cup {<<"a", "l", "l">>, <<"A", "l", "L">>}
SecondParts ==
    {<<"1">>, <<"3">>, <<"0", "-", "1">>, <<"2", "-", "3">>, <<"a", "l", "l">>}
PageSpecs ==
    {<<p>> : p \in PartTexts} \cup {<<p, q>> : p \in PartTexts, q \in SecondParts}

\* compress_pdf has not been called
CompressIdle ==
    /\ input = [c \in Calls |-> IdleDoc]
    /\ quality = [c \in Calls |-> "medium"]
    /\ pc = [c \in Calls |-> "idle"]
    /\ Fresh

\* One call of split_pdf on a document of any number of pages with any
\* page specification.
InitSplit ==
    /\ CompressIdle
    /\ SignIdle
    /\ AppIdle
    /\ pages_str \in PageSpecs
    /\ total_pages \in 0..MaxTotal
    /\ spc = "start"
    /\ part = 0
    /\ pages = <<>>
    /\ page_indices = <<>>
    /\ output_files = <<>>

\* split.py:30-33 and 7-11: parse_page_range is entered and returns at
\* once for all, or starts its loop over the parts
SplitCall ==
    /\ spc = "start"
    /\ IF IsAll(pages_str)
       THEN /\ page_indices' = Range(0, total_pages)
            /\ spc' = "write"
            /\ UNCHANGED part
       ELSE /\ part' = 1
            /\ spc' = "parts"
            /\ UNCHANGED page_indices
    /\ UNCHANGED <<compressVars, signVars, appVars>>
    /\ UNCHANGED <<pages_str, total_pages, pages, output_files>>

\* split.py:13-23, one turn of the loop over the parts; its ValueError
\* leaves parse_page_range and split_pdf
ParsePart ==
    /\ spc = "parts"
    /\ part <= Len(pages_str)
    /\ IF PartRaises(pages_str[part])
       THEN spc' = "raised" /\ UNCHANGED <<pages, part>>
       ELSE /\ pages' = pages \o PartPages(pages_str[part], total_pages)
            /\ part' = part + 1
            /\ UNCHANGED spc
    /\ UNCHANGED <<compressVars, signVars, appVars>>
    /\ UNCHANGED <<pages_str, total_pages, page_indices,
                   output_files>>

\* split.py:25 and 33
ParseReturn ==
    /\ spc = "parts"
    /\ part > Len(pages_str)
    /\ page_indices' = Sorted(Elements(pages))
    /\ spc' = "write"
    /\ UNCHANGED <<compressVars, signVars, appVars>>
    /\ UNCHANGED <<pages_str, total_pages, part, pages,
                   output_files>>

\* split.py:36-43, one turn of the loop over the indices: the page is
\* fetched and written to page_<index + 1>.pdf
WritePage ==
    /\ spc = "write"
    /\ Len(output_files) < Len(page_indices)
    /\ LET page_idx == page_indices[Len(output_files) + 1]
       IN  IF IndexRaises(page_idx, total_pages)
           THEN spc' = "raised" /\ UNCHANGED output_files
           ELSE /\ output_files' = Append(output_files,
                        [name |-> page_idx + 1,
                         page |-> PageAt(page_idx, total_pages)])
                /\ UNCHANGED spc
    /\ UNCHANGED <<compressVars, signVars, appVars>>
    /\ UNCHANGED <<pages_str, total_pages, part, pages,
                   page_indices>>

\* split.py:45
SplitReturn ==
    /\ spc = "write"
    /\ Len(output_files) = Len(page_indices)
    /\ spc' = "done"
    /\ UNCHANGED <<compressVars, signVars, appVars>>
    /\ UNCHANGED <<pages_str, total_pages, part, pages,
                   page_indices, output_files>>

NextSplit ==
    \/ SplitCall
    \/ ParsePart
    \/ ParseReturn
    \/ WritePage
    \/ SplitReturn

SpecSplit == InitSplit /\ [][NextSplit]_vars

\* ------------------------------------------------------------- sign_pdf.py
AllWord == <<"a", "l", "l">>
FirstWord == <<"f", "i", "r", "s", "t">>
LastWord == <<"l", "a", "s", "t">>

\* sign_pdf.py:224-228, `pages == "all"` and the like: the argument has no
\* comma and is the word, letter for letter
IsWord(ps, w) == ps = <<w>>

\* sign_pdf.py:225-229: what _parse_pages returns for the three words
WordPages(ps, total) ==
    IF IsWord(ps, AllWord) THEN 0..(total - 1)
    ELSE IF IsWord(ps, FirstWord) THEN {0}
    ELSE {total - 1}

\* sign_pdf.py:235-239: what one part adds to `result`; the range is not
\* clamped here
SignPartPages(t) ==
    IF HasDash(t)
        THEN (ToInt(StartText(t)) - 1)..(ToInt(EndText(t)) - 1)
        ELSE {ToInt(t) - 1}

\* sign_pdf.py:240
InDocument(S, total) == {p \in S : 0 <= p /\ p < total}

\* the pages arguments tried: a word, or one part of up to MaxPartLen
\* characters, alone or followed by a second part
SignSpecs ==
    {<<p>> : p \in PartTexts \cup {FirstWord, LastWord}}
        \cup {<<p, q>> : p \in PartTexts, q \in SecondParts \cup {LastWord}}

\* One call of sign_pdf_with_text on a document of any number of pages
\* with any pages argument.
InitSign ==
    /\ CompressIdle
    /\ SplitIdle
    /\ AppIdle
    /\ sign_pages \in SignSpecs
    /\ sign_total \in 0..MaxTotal
    /\ sign_pc = "start"
    /\ sign_part = 0
    /\ sign_result = {}
    /\ pages_to_sign = {}
    /\ sign_i = 0
    /\ signed = {}

\* sign_pdf.py:162-163 and 224-232: _parse_pages is entered and returns at
\* once for one of the three words, or starts its loop over the parts
SignCall ==
    /\ sign_pc = "start"
    /\ IF \E w \in {AllWord, FirstWord, LastWord} : IsWord(sign_pages, w)
       THEN /\ pages_to_sign' = WordPages(sign_pages, sign_total)
            /\ sign_pc' = "loop"
            /\ UNCHANGED sign_part
       ELSE /\ sign_part' = 1
            /\ sign_pc' = "parts"
            /\ UNCHANGED pages_to_sign
    /\ UNCHANGED <<compressVars, splitVars, appVars>>
    /\ UNCHANGED <<sign_pages, sign_total, sign_result,
                   sign_i, signed>>

\* sign_pdf.py:233-239, one turn of the loop over the parts; its
\* ValueError leaves _parse_pages and sign_pdf_with_text
SignPart ==
    /\ sign_pc = "parts"
    /\ sign_part <= Len(sign_pages)
    /\ IF PartRaises(sign_pages[sign_part])
       THEN sign_pc' = "raised" /\ UNCHANGED <<sign_result, sign_part>>
       ELSE /\ sign_result' = sign_result \cup SignPartPages(sign_pages[sign_part])
            /\ sign_part' = sign_part + 1
            /\ UNCHANGED sign_pc
    /\ UNCHANGED <<compressVars, splitVars, appVars>>
    /\ UNCHANGED <<sign_pages, sign_total,
                   pages_to_sign, sign_i, signed>>

\* sign_pdf.py:240 and 163
SignFilter ==
    /\ sign_pc = "parts"
    /\ sign_part > Len(sign_pages)
    /\ pages_to_sign' = InDocument(sign_result, sign_total)
    /\ sign_pc' = "loop"
    /\ UNCHANGED <<compressVars, splitVars, appVars>>
    /\ UNCHANGED <<sign_pages, sign_total, sign_part,
                   sign_result, sign_i, signed>>

\* sign_pdf.py:165-181, one turn of the loop over enumerate(reader.pages)
SignPage ==
    /\ sign_pc = "loop"
    /\ sign_i < sign_total
    /\ signed' = IF sign_i \in pages_to_sign THEN signed \cup {sign_i} ELSE signed
    /\ sign_i' = sign_i + 1
    /\ UNCHANGED <<compressVars, splitVars, appVars>>
    /\ UNCHANGED <<sign_pages, sign_total, sign_pc,
                   sign_part, sign_result, pages_to_sign>>

\* sign_pdf.py:183-184
SignReturn ==
    /\ sign_pc = "loop"
    /\ sign_i >= sign_total
    /\ sign_pc' = "done"
    /\ UNCHANGED <<compressVars, splitVars, appVars>>
    /\ UNCHANGED <<sign_pages, sign_total, sign_part,
                   sign_result, pages_to_sign, sign_i, signed>>

NextSign ==
    \/ SignCall
    \/ SignPart
    \/ SignFilter
    \/ SignPage
    \/ SignReturn

SpecSign == InitSign /\ [][NextSign]_vars

\* ------------------------------------------------------------------ app.py
\* A filename is the sequence of its pieces; the last piece is its
\* extension when it starts with a dot; "U+6587" stands for that character,
\* which is outside ASCII.
Extensions == {".pdf", ".PDF", ".txt"}
NonAscii == {"U+6587"}
FileNames ==
    {<<"a", ".pdf">>, <<"b", ".PDF">>, <<"U+6587", "a", ".pdf">>, <<"a", ".txt">>}

\* app.py:29 with the .lower() of line 33, on the extensions tried
ALLOWED_EXTENSIONS == {".pdf"}
LowerExt(e) == IF e = ".PDF" THEN ".pdf" ELSE e

\* app.py:32-33
allowed_file(filename) ==
    /\ filename # <<>>
    /\ filename[Len(filename)] \in Extensions
    /\ LowerExt(filename[Len(filename)]) \in ALLOWED_EXTENSIONS

\* werkzeug's secure_filename on the names tried: the characters outside
\* ASCII are dropped, the rest is kept as it is
IsAsciiPiece(p) == p \notin NonAscii
secure_filename(filename) == SelectSeq(filename, IsAsciiPiece)

\* The names of uuid4 drawn without regard to those already given.
TempDirChoicesAny(given) == DirNames

\* app.py:38, str(uuid.uuid4()): a name that was never given before
TempDirChoices(given) == DirNames \ given

\* app.py:39, mkdir(exist_ok=True): an existing directory is kept as it is
Mkdir(d, id) ==
    [d EXCEPT ![id] = IF @.exists THEN @ ELSE [exists |-> TRUE, files |-> NoFiles]]

\* app.py:46, shutil.rmtree; on a missing directory it raises, which
\* cleanup_temp_dir swallows (47-48)
Rmtree(d, id) == [d EXCEPT ![id] = Gone]

\* f.save(path) and every other write of a file: a file of that name is
\* replaced
WriteFile(files, name, content) ==
    [n \in DOMAIN files \cup {name} |-> IF n = name THEN content ELSE files[n]]

\* merge.py:9-12: the pages of the files at the paths, in the order of the
\* paths, as the files are when merge_pdfs reads them
RECURSIVE Merged(_, _)
Merged(files, paths) ==
    IF paths = <<>> THEN <<>>
    ELSE files[Head(paths)] \o Merged(files, Tail(paths))

\* the one page of upload k of request r
Content(r, k) == <<[req |-> r, file |-> k]>>

\* app.py:59-64, 144-145, 324-325: the request is refused before a
\* directory is made
PreCheckFails(q) ==
    IF q.kind = "merge" THEN Len(q.files) < 2 ELSE Len(q.files) < 1

\* the file the handler sends: merged.pdf, compressed_<filename>, the one
\* image, or pdf_images.zip
OutputName(q, paths) ==
    IF q.kind = "merge" THEN <<"merged", ".pdf">>
    ELSE IF q.kind = "compress" THEN <<"compressed_">> \o paths[1]
    ELSE IF q.multi THEN <<"pdf_images", ".zip">>
    ELSE <<"images", "page_1">>

\* the requests tried: a merge of up to MaxUploads files, or one of the
\* handlers of a single file, next to one of three fixed requests
UploadLists == UNION {[1..n -> FileNames] : n \in 0..MaxUploads}
MergeRequests ==
    {[kind |-> "merge", files |-> fs, multi |-> FALSE] : fs \in UploadLists}
SingleRequests ==
    {[kind |-> k, files |-> fs, multi |-> m] :
        k \in {"compress", "pdf_to_images"},
        fs \in {<<>>} \cup {<<f>> : f \in FileNames},
        m \in BOOLEAN}
OtherRequests ==
    {[kind |-> "merge", files |-> <<<<"a", ".pdf">>, <<"b", ".PDF">>>>,
      multi |-> FALSE],
     [kind |-> "compress", files |-> <<<<"a", ".pdf">>>>, multi |-> FALSE],
     [kind |-> "pdf_to_images", files |-> <<<<"a", ".pdf">>>>, multi |-> TRUE]}

\* Two requests arrive and are handled at the same time.
InitApp ==
    /\ CompressIdle
    /\ SplitIdle
    /\ SignIdle
    /\ \E q1 \in MergeRequests \cup SingleRequests, q2 \in OtherRequests :
          request = [r \in Reqs |-> IF r = 1 THEN q1 ELSE q2]
    /\ rpc = [r \in Reqs |-> "start"]
    /\ temp_dir = [r \in Reqs |-> NoDir]
    /\ upload = [r \in Reqs |-> 0]
    /\ pdf_paths = [r \in Reqs |-> <<>>]
    /\ registered = [r \in Reqs |-> FALSE]
    /\ status = [r \in Reqs |-> 0]
    /\ body = [r \in Reqs |-> <<>>]
    /\ disk = [d \in DirNames |-> Gone]
    /\ made = {}
    /\ removed_by = [d \in DirNames |-> 0]

\* app.py:43-48, cleanup_temp_dir(temp_dir) called by request r
CleanupTempDir(r) ==
    /\ disk' = Rmtree(disk, temp_dir[r])
    /\ removed_by' = [removed_by EXCEPT ![temp_dir[r]] =
                          IF disk[temp_dir[r]].exists THEN r ELSE @]

\* app.py:96-98 and the like: the handler of `except Exception` cleans up
\* and answers 500
Except(r) ==
    /\ CleanupTempDir(r)
    /\ status' = Upd(status, r, 500)
    /\ rpc' = Upd(rpc, r, "after")
    /\ UNCHANGED <<request, temp_dir, upload, pdf_paths, registered, body, made>>

\* app.py:59-64, 144-145, 324-325
RejectEarly(r) ==
    /\ rpc[r] = "start"
    /\ PreCheckFails(request[r])
    /\ status' = Upd(status, r, 400)
    /\ rpc' = Upd(rpc, r, "after")
    /\ UNCHANGED <<compressVars, splitVars, signVars>>
    /\ UNCHANGED <<request, temp_dir, upload, pdf_paths, registered, body, disk,
                   made, removed_by>>

\* app.py:36-40 called at 66, 150, 331
GetTempDir(r) ==
    /\ rpc[r] = "start"
    /\ ~PreCheckFails(request[r])
    /\ \E id \in TempDirChoices(made) :
          /\ temp_dir' = Upd(temp_dir, r, id)
          /\ disk' = Mkdir(disk, id)
          /\ made' = made \cup {id}
    /\ upload' = Upd(upload, r, 1)
    /\ rpc' = Upd(rpc, r, "saving")
    /\ UNCHANGED <<compressVars, splitVars, signVars>>
    /\ UNCHANGED <<request, pdf_paths, registered, status, body, removed_by>>

\* app.py:70-75, one turn of the loop of api_merge, which passes over a
\* file that is not allowed; 152-154 and 333-335, which save the one file
SaveUpload(r) ==
    /\ rpc[r] = "saving"
    /\ upload[r] <= Len(request[r].files)
    /\ LET f == request[r].files[upload[r]]
           filename == secure_filename(f)
           taken == request[r].kind # "merge" \/ allowed_file(f)
       IN  /\ disk' = IF taken
                      THEN [disk EXCEPT ![temp_dir[r]].files =
                               WriteFile(@, filename, Content(r, upload[r]))]
                      ELSE disk
           /\ pdf_paths' = IF taken THEN Upd(pdf_paths, r, Append(pdf_paths[r], filename))
                           ELSE pdf_paths
    /\ upload' = Upd(upload, r, upload[r] + 1)
    /\ UNCHANGED <<compressVars, splitVars, signVars>>
    /\ UNCHANGED <<request, rpc, temp_dir, registered, status, body, made,
                   removed_by>>

\* f.save raises
SaveRaises(r) ==
    /\ rpc[r] = "saving"
    /\ upload[r] <= Len(request[r].files)
    /\ Except(r)
    /\ UNCHANGED <<compressVars, splitVars, signVars>>

\* app.py:77-79
TooFewValid(r) ==
    /\ rpc[r] = "saving"
    /\ upload[r] > Len(request[r].files)
    /\ request[r].kind = "merge" /\ Len(pdf_paths[r]) < 2
    /\ CleanupTempDir(r)
    /\ status' = Upd(status, r, 400)
    /\ rpc' = Upd(rpc, r, "after")
    /\ UNCHANGED <<compressVars, splitVars, signVars>>
    /\ UNCHANGED <<request, temp_dir, upload, pdf_paths, registered, body, made>>

\* the uploads are saved and the handler goes on to its tool
ToolDue(r) ==
    /\ rpc[r] = "saving"
    /\ upload[r] > Len(request[r].files)
    /\ request[r].kind = "merge" => Len(pdf_paths[r]) >= 2

\* app.py:82-83 with merge.py:5-13; 156-157; 337-340: the tool writes its
\* output into the directory of the request
RunTool(r) ==
    /\ ToolDue(r)
    /\ LET files == disk[temp_dir[r]].files
           out == IF request[r].kind = "merge" THEN Merged(files, pdf_paths[r])
                  ELSE files[pdf_paths[r][1]]
           name == IF request[r].kind = "pdf_to_images" THEN <<"images", "page_1">>
                   ELSE OutputName(request[r], pdf_paths[r])
       IN  disk' = [disk EXCEPT ![temp_dir[r]].files = WriteFile(@, name, out)]
    /\ rpc' = Upd(rpc, r, "register")
    /\ UNCHANGED <<compressVars, splitVars, signVars>>
    /\ UNCHANGED <<request, temp_dir, upload, pdf_paths, registered, status, body,
                   made, removed_by>>

\* the tool raises
ToolRaises(r) ==
    /\ ToolDue(r)
    /\ Except(r)
    /\ UNCHANGED <<compressVars, splitVars, signVars>>

\* app.py:85-88, 159-162, 342-345: after_this_request takes the cleanup
Register(r) ==
    /\ rpc[r] = "register"
    /\ registered' = Upd(registered, r, TRUE)
    /\ rpc' = Upd(rpc, r, IF request[r].kind = "pdf_to_images" /\ request[r].multi
                          THEN "archive" ELSE "send")
    /\ UNCHANGED <<compressVars, splitVars, signVars>>
    /\ UNCHANGED <<request, temp_dir, upload, pdf_paths, status, body, disk, made,
                   removed_by>>

\* app.py:358-359, the images of several pages are zipped
Archive(r) ==
    /\ rpc[r] = "archive"
    /\ disk' = [disk EXCEPT ![temp_dir[r]].files =
                   WriteFile(@, <<"pdf_images", ".zip">>, @[<<"images", "page_1">>])]
    /\ rpc' = Upd(rpc, r, "send")
    /\ UNCHANGED <<compressVars, splitVars, signVars>>
    /\ UNCHANGED <<request, temp_dir, upload, pdf_paths, registered, status, body,
                   made, removed_by>>

\* shutil.make_archive raises
ArchiveRaises(r) ==
    /\ rpc[r] = "archive"
    /\ Except(r)
    /\ UNCHANGED <<compressVars, splitVars, signVars>>

\* app.py:90-95, 164-169, 350-355, 361-366: send_file opens the output
SendFile(r) ==
    /\ rpc[r] = "send"
    /\ body' = Upd(body, r,
                   disk[temp_dir[r]].files[OutputName(request[r], pdf_paths[r])])
    /\ status' = Upd(status, r, 200)
    /\ rpc' = Upd(rpc, r, "after")
    /\ UNCHANGED <<compressVars, splitVars, signVars>>
    /\ UNCHANGED <<request, temp_dir, upload, pdf_paths, registered, disk, made,
                   removed_by>>

\* send_file raises
SendRaises(r) ==
    /\ rpc[r] = "send"
    /\ Except(r)
    /\ UNCHANGED <<compressVars, splitVars, signVars>>

\* the response leaves the view and Flask runs what after_this_request
\* has taken
AfterRequest(r) ==
    /\ rpc[r] = "after"
    /\ IF registered[r] THEN CleanupTempDir(r) ELSE UNCHANGED <<disk, removed_by>>
    /\ rpc' = Upd(rpc, r, "done")
    /\ UNCHANGED <<compressVars, splitVars, signVars>>
    /\ UNCHANGED <<request, temp_dir, upload, pdf_paths, registered, status, body,
                   made>>

NextApp ==
    \E r \in Reqs :
        \/ RejectEarly(r)
        \/ GetTempDir(r)
        \/ SaveUpload(r)
        \/ SaveRaises(r)
        \/ TooFewValid(r)
        \/ RunTool(r)
        \/ ToolRaises(r)
        \/ Register(r)
        \/ Archive(r)
        \/ ArchiveRaises(r)
        \/ SendFile(r)
        \/ SendRaises(r)
        \/ AfterRequest(r)

SpecApp == InitApp /\ [][NextApp]_vars

\* ------------------------------------------------------------- the claims
Original(c, id) == input[c].objs[id]
Unmodified(c, id) == objs[c][id] = Original(c, id)
Rewritten(c, id) == objs[c][id].data.gen >= 1

\* the page loop of call c has run to its end
LoopOver(c) ==
    \/ pc[c] \in {"remove", "save", "exit", "stat_out", "return", "done"}
    \/ pc[c] = "raised" /\ error[c] \in {"remove", "save", "stat_output"}

\* every key of every page whose /XObject dictionary can be read
EntriesOf(c) ==
    UNION {{<<p, k>> : k \in 1..Len(Pages(c)[p].xobjects)} :
           p \in {n \in 1..Len(Pages(c)) : Pages(c)[n].res = "ok"}}
Logged(c) == {<<log[c][i].page, log[c][i].key>> : i \in 1..Len(log[c])}
Referenced(c) == {log[c][i].obj : i \in 1..Len(log[c])}

\* an image on which no step of the scan or of either codec path fails
Sound(o, s) ==
    /\ o.kind = "image" /\ o.Width >= 100 /\ o.Height >= 100
    /\ o.BitsPerComponent \in {0, 8}
    /\ o.fault = "none"
    /\ \/ /\ o.Filter = "/DCTDecode" /\ o.data.enc = "jpeg"
          /\ o.data.w * s.scale >= 100 /\ o.data.h * s.scale >= 100
       \/ /\ o.Filter \in {"/FlateDecode", "absent"} /\ o.data.enc = "raw"
          /\ o.data.len = o.Width * o.Height
                * (IF o.ColorSpace = "/DeviceGray" THEN 1
                   ELSE IF o.ColorSpace = "/DeviceCMYK" THEN 4 ELSE 3)

\* C1: a failure on one image never stops the call: once the page loop is
\* over, every key of every readable page has been looked at, in spite of
\* the failing ones, every sound image among them has been recompressed,
\* and no image failure has left compress_pdf as an exception.
C1_FailuresDoNotStopProcessing ==
    \A c \in Calls :
        /\ error[c] # "image"
        /\ LoopOver(c) =>
              /\ Logged(c) = EntriesOf(c)
              /\ \A id \in Referenced(c) :
                    Sound(Original(c, id), settings[c]) => Rewritten(c, id)

\* C1 witness: the call stands at the save, having logged an image whose
\* decode failed (left unmodified) and, after it on the same page, another
\* image that was recompressed.
C1_Witness ==
    /\ pc[1] = "save"
    /\ \E i, j \in 1..Len(log[1]) :
          /\ i < j
          /\ log[1][i].page = log[1][j].page
          /\ log[1][i].passed
          /\ log[1][i].seen.fault = "decode"
          /\ Unmodified(1, log[1][i].obj)
          /\ log[1][j].obj # log[1][i].obj
          /\ Rewritten(1, log[1][j].obj)

DocumentSteps ==
    {"stat_input", "open", "pages", "remove", "save", "stat_output"}

\* C2 as claimed: the only errors that escape compress_pdf are those of
\* the open and of the save.
C2_OnlyOpenAndSaveEscape ==
    \A c \in Calls : pc[c] = "raised" => error[c] \in {"open", "save"}

\* C2 as amended: errors of the page scan and of image recompression are
\* absorbed; an error of any document-level step (either size measurement,
\* the open, the page enumeration, the removal of unreferenced resources,
\* the save) escapes and the caller gets no stats; a call that returns has
\* saved the document and returns stats.
C2_DocumentStepErrorsEscape ==
    \A c \in Calls :
        /\ pc[c] = "raised" => error[c] \in DocumentSteps /\ result[c] = NoStats
        /\ pc[c] = "done" =>
              error[c] = "none" /\ saved[c].written /\ result[c] # NoStats

\* C2 witness: an entry whose examination raised was absorbed, and then the
\* removal of unreferenced resources raised and left the call.
C2_Witness ==
    /\ pc[1] = "raised" /\ error[1] = "remove"
    /\ \E i \in 1..Len(log[1]) : log[1][i].seen.kind = "broken"

\* a decode, resize or encode step fails on the object under these settings
CodecFails(o, s) ==
    \/ o.fault \in {"decode", "encode"}
    \/ s.scale < 100 /\ o.fault = "resize"

\* the object reaches one of the two codec paths with a payload they take
ReachesCodec(o) ==
    /\ o.kind = "image" /\ o.Width >= 100 /\ o.Height >= 100
    /\ o.BitsPerComponent \in {0, 8}
    /\ \/ o.Filter = "/DCTDecode" /\ o.data.enc = "jpeg"
       \/ /\ o.Filter \in {"/FlateDecode", "absent"} /\ o.data.enc = "raw"
          /\ o.data.len = o.Width * o.Height * Components(ModeOf(o.ColorSpace))

\* C3: an image on which a decode, resize or encode step fails keeps its
\* payload, Filter, Width, Height and ColorSpace exactly as they were.
C3_FailedImageUntouched ==
    \A c \in Calls : \A id \in ObjIds :
        CodecFails(Original(c, id), settings[c]) => Unmodified(c, id)

\* C3 witness: an image was handed to a codec path, a step of the path
\* failed on it, and it is as it was.
C3_Witness ==
    \E i \in 1..Len(log[1]) :
        /\ log[1][i].passed
        /\ ReachesCodec(log[1][i].seen)
        /\ log[1][i].seen.fault = "encode"
        /\ settings[1].scale < 100
        /\ Unmodified(1, log[1][i].obj)

\* the settings the tier names stand for
TierMeans(name) ==
    IF name = "low" THEN [image_quality |-> 30, scale |-> 50]
    ELSE IF name = "high" THEN [image_quality |-> 85, scale |-> 100]
    ELSE [image_quality |-> 60, scale |-> 75]

\* C4: low is (30, 0.5), medium (60, 0.75), high (85, 1.0) and every other
\* name medium's values; two calls on the same input, one with an
\* unrecognized name and one with "medium", end with the same images, the
\* same saved document and, for the same output size, the same stats.
C4_UnknownTierIsMedium ==
    /\ \A c \in Calls :
          pc[c] \notin {"idle", "start"} => settings[c] = TierMeans(quality[c])
    /\ ( /\ pc[1] = "done" /\ pc[2] = "done"
         /\ input[1] = input[2]
         /\ quality[1] \notin {"low", "medium", "high"}
         /\ quality[2] = "medium" )
       => /\ objs[1] = objs[2]
          /\ saved[1] = saved[2]
          /\ compressed_size[1] = compressed_size[2] => result[1] = result[2]

\* C4 witness: a call with "ultra" and a call with "medium" have both
\* returned, each having recompressed an image.
C4_Witness ==
    /\ pc[1] = "done" /\ pc[2] = "done"
    /\ quality[1] = "ultra" /\ quality[2] = "medium"
    /\ Rewritten(1, 2) /\ Rewritten(2, 2)

\* the payload is what the dictionary says it is
Consistent(o) ==
    o.Filter = "/DCTDecode" =>
        o.data.enc = "jpeg" /\ o.data.w = o.Width /\ o.data.h = o.Height

\* C5 as claimed, and only for images whose JPEG has the size the
\* dictionary declares: with scale s < 1.0, an image the call has changed
\* has Width floor(originalWidth * s) and Height floor(originalHeight * s).
C5_ScaledOnceFromOriginal ==
    \A c \in Calls : \A id \in ObjIds :
        ( /\ settings[c].scale < 100
          /\ Consistent(Original(c, id))
          /\ ~Unmodified(c, id) )
        => /\ objs[c][id].Width = (Original(c, id).Width * settings[c].scale) \div 100
           /\ objs[c][id].Height = (Original(c, id).Height * settings[c].scale) \div 100

\* C6 as claimed: returned stats carry the rounded percentage, 0 for an
\* original size of 0, and a call on an input of size 0 (that stat finds)
\* raises no exception.
C6_EmptyInputRaisesNothing ==
    \A c \in Calls :
        /\ pc[c] = "done" /\ original_size[c] = 0 =>
              result[c].reduction_percent = 0
        /\ input[c].size = 0 /\ error[c] # "stat_input" => pc[c] # "raised"

\* r is x rounded to one decimal, where x = (1 - c/o) * 100 and r is in
\* tenths: r lies within half a tenth of x.
IsRounded(r, o, c) ==
    LET diff == r * o - 1000 * (o - c)
    IN  2 * (IF diff < 0 THEN 0 - diff ELSE diff) <= o

\* C6 as amended: returned stats carry the sizes measured and
\* round((1 - compressed_size/original_size) * 100, 1); the expression is
\* 0, without a division, for an original size of 0; but a call on an
\* input of size 0 returns nothing: the open of the empty file raises.
C6_ReductionPercentRounded ==
    /\ \A sz \in Sizes : ReductionPercent(0, sz) = 0
    /\ \A c \in Calls :
          /\ pc[c] = "done" =>
                /\ original_size[c] > 0
                /\ result[c].original_size = original_size[c]
                /\ result[c].compressed_size = compressed_size[c]
                /\ IsRounded(result[c].reduction_percent, original_size[c],
                             compressed_size[c])
          /\ input[c].size = 0 =>
                /\ pc[c] \in {"idle", "start", "stat", "open", "raised"}
                /\ pc[c] = "raised" => error[c] \in {"stat_input", "open"}

\* C6 witness: a call returned stats for 7000 bytes compressed to 1500,
\* 78.571...%, reported as 78.6.
C6_Witness ==
    /\ pc[1] = "done"
    /\ original_size[1] = 7000 /\ compressed_size[1] = 1500
    /\ result[1].reduction_percent = 786

\* C7: an image whose Width or Height is missing, zero or below 100 is
\* never modified, whatever the tier; an image seen with both at least 100
\* is passed on to _recompress_image.
C7_SmallImagesSkipped ==
    \A c \in Calls :
        /\ \A id \in ObjIds :
              ( /\ Original(c, id).kind = "image"
                /\ (Original(c, id).Width < 100 \/ Original(c, id).Height < 100) )
              => Unmodified(c, id)
        /\ \A i \in 1..Len(log[c]) :
              ( /\ log[c][i].seen.kind = "image"
                /\ log[c][i].seen.Width >= 100 /\ log[c][i].seen.Height >= 100 )
              => log[c][i].passed

\* C7 witness: the call returned after looking at an otherwise sound image
\* 800 wide and 99 high, which it did not pass on and did not change.
C7_Witness ==
    /\ pc[1] = "done"
    /\ \E i \in 1..Len(log[1]) :
          /\ log[1][i].seen.Width = 800 /\ log[1][i].seen.Height = 99
          /\ log[1][i].seen.BitsPerComponent = 8
          /\ log[1][i].seen.Filter = "/FlateDecode"
          /\ log[1][i].seen.fault = "none"
          /\ ~log[1][i].passed
          /\ Unmodified(1, log[1][i].obj)

\* C8: an image whose BitsPerComponent is a value other than 8 is never
\* modified, whatever its filter, color space and size.
C8_OtherBitDepthsUntouched ==
    \A c \in Calls : \A id \in ObjIds :
        ( /\ Original(c, id).kind = "image"
          /\ Original(c, id).BitsPerComponent \notin {0, 8} )
        => Unmodified(c, id)

\* C8 witness: a 16-bit DCT image 800 x 600 was passed on to
\* _recompress_image and the call returned with it unchanged.
C8_Witness ==
    /\ pc[1] = "done"
    /\ \E i \in 1..Len(log[1]) :
          /\ log[1][i].passed
          /\ log[1][i].seen.BitsPerComponent = 16
          /\ log[1][i].seen.Filter = "/DCTDecode"
          /\ log[1][i].seen.Width = 800 /\ log[1][i].seen.Height = 600
          /\ Unmodified(1, log[1][i].obj)

\* the decompressed length disagrees with Width * Height * components
LengthMismatch(o) ==
    /\ o.kind = "image"
    /\ o.Filter \in {"/FlateDecode", "absent"}
    /\ o.data.enc = "raw"
    /\ o.data.len # o.Width * o.Height
          * (IF o.ColorSpace = "/DeviceGray" THEN 1
             ELSE IF o.ColorSpace = "/DeviceCMYK" THEN 4 ELSE 3)

\* C9: a Flate-filtered or unfiltered image whose decompressed length is
\* not Width * Height * components is never modified, and the call is not
\* left by an exception of the image loop.
C9_LengthMismatchUntouched ==
    \A c \in Calls :
        /\ \A id \in ObjIds : LengthMismatch(Original(c, id)) => Unmodified(c, id)
        /\ (\E i \in 1..Len(log[c]) : LengthMismatch(log[c][i].seen))
              => ~(pc[c] = "raised" /\ error[c] \notin DocumentSteps)

\* C9 witness: an 8-bit Flate image one byte too long reached
\* _recompress_image and the call returned with it unchanged.
C9_Witness ==
    /\ pc[1] = "done"
    /\ \E i \in 1..Len(log[1]) :
          /\ log[1][i].passed
          /\ LengthMismatch(log[1][i].seen)
          /\ log[1][i].seen.BitsPerComponent = 8
          /\ log[1][i].seen.Filter = "/FlateDecode"
          /\ log[1][i].seen.fault = "none"
          /\ Unmodified(1, log[1][i].obj)

\* the document of the end-to-end case: two pages, the first with one
\* 800 x 600 DeviceRGB 8-bit Flate image of 1440000 bytes, the second
\* without images
EndToEndDoc(d) ==
    /\ Len(d.pages) = 2
    /\ d.pages[1] = Page("ok", <<2>>)
    /\ d.pages[2].res \in {"none", "noxobj"}
    /\ d.objs[2].kind = "image"
    /\ d.objs[2].Width = 800 /\ d.objs[2].Height = 600
    /\ d.objs[2].ColorSpace = "/DeviceRGB" /\ d.objs[2].BitsPerComponent = 8
    /\ d.objs[2].Filter = "/FlateDecode"
    /\ d.objs[2].data = RawData(1440000)
    /\ d.objs[2].fault = "none"

\* C10: on that document with tier "low", once the page loop is over the
\* image has Filter DCTDecode, Width 400, Height 300 and ColorSpace
\* DeviceRGB, and nothing of page 2 was looked at or touched.
C10_EndToEndLow ==
    \A c \in Calls :
        (EndToEndDoc(input[c]) /\ quality[c] = "low" /\ LoopOver(c)) =>
            /\ objs[c][2].Filter = "/DCTDecode"
            /\ objs[c][2].Width = 400 /\ objs[c][2].Height = 300
            /\ objs[c][2].ColorSpace = "/DeviceRGB"
            /\ objs[c][2].data.enc = "jpeg"
            /\ \A i \in 1..Len(log[c]) : log[c][i].page = 1
            /\ Unmodified(c, 1)

\* C10 witness: the call on that document with tier "low" has returned.
C10_Witness ==
    EndToEndDoc(input[1]) /\ quality[1] = "low" /\ pc[1] = "done"

\* ------------------------------------------------------------------- C11
\* no page of the document names an image: each page has no /Resources, no
\* /XObject, or only entries that are no image
NoImage(d) ==
    \A p \in 1..Len(d.pages) :
        /\ d.pages[p].res \in {"none", "noxobj", "ok"}
        /\ \A k \in 1..Len(PageKeys(d.pages[p])) :
               d.objs[PageKeys(d.pages[p])[k]].kind \in {"form", "nonstream"}

\* C11: on a document none of whose pages names an image the call changes
\* no object, nothing of the page loop raises, the save follows the
\* removal of the unreferenced resources and writes the objects as they
\* were opened, and the call that reaches its end returns the stats.
C11_NoImageDocumentPassesThrough ==
    \A c \in Calls : NoImage(input[c]) =>
        /\ objs[c] = input[c].objs
        /\ error[c] \in {"none"} \cup DocumentSteps
        /\ \A i \in 1..Len(log[c]) : log[c][i].after = log[c][i].seen
        /\ saved[c].written => removed[c] /\ saved[c].objs = input[c].objs
        /\ pc[c] \in {"stat_out", "return", "done"} =>
               removed[c] /\ saved[c].written
        /\ pc[c] = "done" =>
               result[c] = Stats(original_size[c], compressed_size[c])

\* a returned call on a document whose pages hold a form with the entries
\* of an image, or hold no resources at all
C11_Witness ==
    /\ pc[1] = "done" /\ NoImage(input[1]) /\ result[1] # NoStats
    /\ saved[1].written /\ removed[1]
    /\ \/ \E i \in 1..Len(log[1]) : log[1][i].seen = FormWithDims
       \/ Len(Pages(1)) = 2 /\ Pages(1)[1].res = "none"
                             /\ Pages(1)[2].res = "noxobj"

\* ------------------------------------------------------------------- C13
\* the positions of compress_pdf inside its with-block
InsideWith == {"pages", "keys", "remove", "save", "exit"}

\* C13: the handle is open only while the call is inside the with-block;
\* a call that has left it, after the save or by an exception of the page
\* processing, of the removal or of the save, holds a closed handle, and a
\* call whose open raised never held one.
C13_HandleReleasedOnEveryExit ==
    \A c \in Calls :
        /\ handle[c] = "open" <=> pc[c] \in InsideWith
        /\ pc[c] \in {"stat_out", "return", "done"} => handle[c] = "closed"
        /\ pc[c] = "raised" =>
               handle[c] = (IF error[c] \in {"stat_input", "open"}
                            THEN "none" ELSE "closed")

\* the save raised after an image was rewritten, and the handle is closed
C13_Witness ==
    /\ pc[1] = "raised" /\ error[1] = "save" /\ handle[1] = "closed"
    /\ \E id \in ObjIds : Rewritten(1, id)

\* ------------------------------------------------------------------- C14
\* compress.py:26-27 run by one call on its own: the keys of the readable
\* pages, in page order, each handed to one turn of the loop
RECURSIVE AllKeys(_)
AllKeys(ps) ==
    IF ps = <<>> THEN <<>>
    ELSE PageKeys(Head(ps)) \o AllKeys(Tail(ps))

RECURSIVE FoldKeys(_, _, _)
FoldKeys(os, keys, s) ==
    IF keys = <<>> THEN os
    ELSE FoldKeys([os EXCEPT ![Head(keys)] = ProcessEntry(os[Head(keys)], s)],
                  Tail(keys), s)

RunAlone(d, s) == FoldKeys(d.objs, AllKeys(d.pages), s)

\* everything call c holds
CallState(c) ==
    <<quality[c], input[c], pc[c], settings[c], original_size[c],
      compressed_size[c], handle[c], objs[c], pageIdx[c], keyIdx[c], log[c],
      saved[c], removed[c], result[c], error[c], events[c]>>

\* C14: of two calls on their own paths whose steps interleave, each has,
\* once its page loop is over, the objects it has when run alone with its
\* tier, saves those and returns the stats of its own sizes; every step
\* changes the state of one call only and none writes the tier table.
C14_InterleavedCallsAreIndependent ==
    /\ [](\A c \in Calls :
            /\ QUALITY_SETTINGS = TierTable
            /\ LoopOver(c) =>
                   objs[c] = RunAlone(input[c], TierMeans(quality[c]))
            /\ saved[c].written => saved[c].objs = objs[c]
            /\ pc[c] = "done" =>
                   result[c] = Stats(input[c].size, compressed_size[c]))
    /\ [][/\ QUALITY_SETTINGS' = QUALITY_SETTINGS
          /\ \E c \in Calls :
                \A d \in Calls \ {c} : CallState(d)' = CallState(d)]_vars

\* both calls have returned, each has rewritten an image, and the two
\* tiers have left different images
C14_Witness ==
    /\ \A c \in Calls : pc[c] = "done" /\ \E id \in ObjIds : Rewritten(c, id)
    /\ objs[1] # objs[2]
    /\ compressed_size[1] # compressed_size[2]

\* ------------------------------------------------------------------- C15
\* a step of _recompress_image on this object raises under settings s
StepFails(o, s) ==
    \/ o.fault \in {"read_raw", "decode", "encode", "write"}
    \/ s.scale < 100 /\ o.fault = "resize"

\* one turn of the loop took `seen` to `after` by a whole rewrite: a new
\* JPEG payload, Filter DCTDecode, and the dictionary entries of its path
WholeRewrite(seen, after, s) ==
    /\ after.data.enc = "jpeg" /\ after.data.gen = seen.data.gen + 1
    /\ after.data.q = s.image_quality
    /\ after.Filter = "/DCTDecode"
    /\ after.BitsPerComponent = seen.BitsPerComponent
    /\ IF seen.Filter = "/DCTDecode"
       THEN /\ after.ColorSpace = seen.ColorSpace
            /\ IF s.scale < 100
               THEN after.Width = after.data.w /\ after.Height = after.data.h
               ELSE after.Width = seen.Width /\ after.Height = seen.Height
       ELSE /\ after.ColorSpace = "/DeviceRGB"
            /\ after.Width = after.data.w /\ after.Height = after.data.h

\* C15: every turn of the loop leaves its image as it found it or wholly
\* rewritten; a turn on which a step of _recompress_image fails, or which
\* the scan skips, leaves it as it found it; so at every moment an image
\* is the original or carries a JPEG payload under Filter DCTDecode with
\* the Width, Height and ColorSpace of its last rewrite.
C15_RewriteIsAllOrNothing ==
    \A c \in Calls :
        /\ \A i \in 1..Len(log[c]) :
             LET e == log[c][i]
             IN  /\ e.after = e.seen \/ WholeRewrite(e.seen, e.after, settings[c])
                 /\ ~e.passed \/ StepFails(e.seen, settings[c]) => e.after = e.seen
        /\ \A id \in ObjIds :
             \/ Unmodified(c, id)
             \/ \E i \in 1..Len(log[c]) :
                   /\ log[c][i].obj = id
                   /\ log[c][i].after = objs[c][id]
                   /\ WholeRewrite(log[c][i].seen, objs[c][id], settings[c])

\* one image of the page failed at its write or its encoding and is as it
\* was, another was rewritten with scaled dimensions
C15_Witness ==
    /\ LoopOver(1) /\ settings[1].scale < 100
    /\ \E i, j \in 1..Len(log[1]) :
          /\ log[1][i].passed /\ log[1][i].seen.fault \in {"write", "encode"}
          /\ ReachesCodec(log[1][i].seen)
          /\ Unmodified(1, log[1][i].obj)
          /\ log[1][j].after # log[1][j].seen
          /\ log[1][j].after.Width < log[1][j].seen.Width

\* ------------------------------------------------------------------- C16
\* the calls of one turn of the page loop on page number n
RECURSIVE PageSteps(_, _)
PageSteps(ps, n) ==
    IF n > Len(ps) THEN <<>>
    ELSE <<Event("page", n)>>
            \o [k \in 1..Len(PageKeys(ps[n])) |-> Event("entry", n)]
            \o PageSteps(ps, n + 1)

\* the calls of a whole run on document d, in the order of lines 21 to 40
Schedule(d) ==
    <<Event("size_in", 0), Event("open", 0)>>
        \o PageSteps(d.pages, 1)
        \o <<Event("remove", 0), Event("save", 0), Event("close", 0),
             Event("size_out", 0)>>

IsPrefix(s, t) == Len(s) <= Len(t) /\ s = SubSeq(t, 1, Len(s))

Count(s, step) == Cardinality({i \in 1..Len(s) : s[i].step = step})

\* C16: what a call has done so far is a prefix of: measure the original
\* size, open, each page in page order with each of its entries, remove
\* the unreferenced resources, save, close, measure the output; the call
\* that returns has done all of it, so the document is opened once and
\* saved once, and no image changes once the removal has run.
C16_StepsInOrder ==
    \A c \in Calls :
        /\ IsPrefix(events[c], Schedule(input[c]))
        /\ pc[c] \in {"return", "done"} => events[c] = Schedule(input[c])
        /\ Count(events[c], "open") = (IF handle[c] = "none" THEN 0 ELSE 1)
        /\ Count(events[c], "save") = (IF saved[c].written THEN 1 ELSE 0)
        /\ removed[c] = (Count(events[c], "remove") = 1)
        /\ removed[c] => objs[c] = RunAlone(input[c], settings[c])
        /\ saved[c].written => saved[c].objs = RunAlone(input[c], settings[c])

\* a returned call on two pages, the first with one entry and the second
\* with two, that changed an image
C16_Witness ==
    /\ pc[1] = "done" /\ Len(Pages(1)) = 2
    /\ Len(PageKeys(Pages(1)[1])) = 1 /\ Len(PageKeys(Pages(1)[2])) = 2
    /\ \E id \in ObjIds : Rewritten(1, id)
    /\ Len(events[1]) = 11

\* ------------------------------------------------------------------- C17
\* floor(x * scale) for the scales of the three tiers
FloorScaled(x, s) ==
    IF s.scale = 50 THEN x \div 2
    ELSE IF s.scale = 75 THEN (3 * x) \div 4
    ELSE x

\* the scan hands the image to the raw-sample path and no step of it fails
RawPathSucceeds(o, s) ==
    /\ o.kind = "image" /\ o.Width >= 100 /\ o.Height >= 100
    /\ o.BitsPerComponent \in {0, 8}
    /\ o.Filter \in {"/FlateDecode", "absent"}
    /\ o.data.enc = "raw"
    /\ ~LengthMismatch(o)
    /\ ~StepFails(o, s)

\* C17: a turn of the loop on which the raw-sample path succeeds leaves
\* the image with Filter DCTDecode, ColorSpace DeviceRGB, a JPEG payload of
\* the tier's quality, and Width and Height floor(Width * scale) and
\* floor(Height * scale), which for scale 1.0 are the original ones.
C17_RawPathResult ==
    \A c \in Calls : \A i \in 1..Len(log[c]) :
        LET e == log[c][i]
            s == settings[c]
        IN  RawPathSucceeds(e.seen, s) =>
                /\ e.after.Filter = "/DCTDecode"
                /\ e.after.ColorSpace = "/DeviceRGB"
                /\ e.after.Width = FloorScaled(e.seen.Width, s)
                /\ e.after.Height = FloorScaled(e.seen.Height, s)
                /\ s.scale = 100 =>
                       /\ e.after.Width = e.seen.Width
                       /\ e.after.Height = e.seen.Height
                /\ e.after.data.enc = "jpeg"
                /\ e.after.data.w = e.after.Width
                /\ e.after.data.h = e.after.Height
                /\ e.after.data.q = s.image_quality

\* the raw-sample path has rewritten a DeviceGray image without scaling
\* it, or a DeviceCMYK image to three quarters
C17_Witness ==
    \E i \in 1..Len(log[1]) :
        LET e == log[1][i]
        IN  /\ RawPathSucceeds(e.seen, settings[1])
            /\ e.after.data.gen = 1
            /\ \/ /\ e.seen.ColorSpace = "/DeviceGray"
                  /\ settings[1].scale = 100
                  /\ e.after.Width = e.seen.Width
               \/ /\ e.seen.ColorSpace = "/DeviceCMYK"
                  /\ settings[1].scale = 75
                  /\ e.after.Width < e.seen.Width

\* ------------------------------------------------------------------- C18
\* the scan hands the image to the DCT path and no step of it fails
DctPathSucceeds(o, s) ==
    /\ o.kind = "image" /\ o.Width >= 100 /\ o.Height >= 100
    /\ o.BitsPerComponent \in {0, 8}
    /\ o.Filter = "/DCTDecode"
    /\ o.data.enc = "jpeg"
    /\ FloorScaled(o.data.w, s) >= 1 /\ FloorScaled(o.data.h, s) >= 1
    /\ ~StepFails(o, s)

\* C18: a turn of the loop on which the DCT path succeeds replaces the
\* payload by a JPEG of the tier's quality and keeps Filter DCTDecode,
\* ColorSpace and BitsPerComponent; with scale < 1.0 Width and Height
\* become the floor-scaled size of the decoded JPEG, which is the size of
\* the new payload, and with scale 1.0 they stay as they were.
C18_DctPathFrame ==
    \A c \in Calls : \A i \in 1..Len(log[c]) :
        LET e == log[c][i]
            s == settings[c]
        IN  DctPathSucceeds(e.seen, s) =>
                /\ e.after.data.enc = "jpeg"
                /\ e.after.data.gen = e.seen.data.gen + 1
                /\ e.after.data.q = s.image_quality
                /\ e.after.data.w = FloorScaled(e.seen.data.w, s)
                /\ e.after.data.h = FloorScaled(e.seen.data.h, s)
                /\ e.after.Filter = "/DCTDecode"
                /\ e.after.ColorSpace = e.seen.ColorSpace
                /\ e.after.BitsPerComponent = e.seen.BitsPerComponent
                /\ IF s.scale < 100
                   THEN /\ e.after.Width = e.after.data.w
                        /\ e.after.Height = e.after.data.h
                   ELSE /\ e.after.Width = e.seen.Width
                        /\ e.after.Height = e.seen.Height

\* the DCT path has re-encoded, without scaling, a JPEG whose size is not
\* the one its dictionary declares, and the dictionary still declares it
C18_Witness ==
    \E i \in 1..Len(log[1]) :
        LET e == log[1][i]
        IN  /\ DctPathSucceeds(e.seen, settings[1])
            /\ settings[1].scale = 100
            /\ e.seen.data.w # e.seen.Width
            /\ e.after.data.gen = e.seen.data.gen + 1
            /\ e.after.Width = e.seen.Width /\ e.after.Width # e.after.data.w

\* ------------------------------------------------------------------- C19
\* bytes per pixel of the samples the raw-sample path expects
BytesPerPixel(cs) ==
    IF cs = "/DeviceGray" THEN 1 ELSE IF cs = "/DeviceCMYK" THEN 4 ELSE 3

\* an image of 8 bits per component that the scan passes on and on which
\* no library call fails
Candidate(e) ==
    e.passed /\ e.seen.BitsPerComponent \in {0, 8} /\ e.seen.fault = "none"

\* C19: a candidate with Filter DCTDecode is re-encoded as the JPEG it is,
\* whatever its ColorSpace, which it keeps; one with Filter FlateDecode or
\* none is taken as raw samples and rewritten exactly when it holds
\* Width * Height * n bytes, n being 1 for DeviceGray, 4 for DeviceCMYK
\* and 3 for every other color space; one with any other filter is left
\* as it was.
C19_RoutedByFilter ==
    \A c \in Calls : \A i \in 1..Len(log[c]) :
        LET e == log[c][i]
            o == e.seen
        IN  Candidate(e) =>
              /\ o.Filter \notin {"/DCTDecode", "/FlateDecode", "absent"} =>
                     e.after = o
              /\ o.Filter = "/DCTDecode" /\ o.data.enc = "jpeg"
                   /\ FloorScaled(o.data.w, settings[c]) >= 1
                   /\ FloorScaled(o.data.h, settings[c]) >= 1 =>
                     /\ e.after.data.gen = o.data.gen + 1
                     /\ e.after.data.mode = o.data.mode
                     /\ e.after.ColorSpace = o.ColorSpace
              /\ o.Filter \in {"/FlateDecode", "absent"} /\ o.data.enc = "raw" =>
                     IF o.data.len = o.Width * o.Height * BytesPerPixel(o.ColorSpace)
                     THEN /\ e.after.data.gen = o.data.gen + 1
                          /\ e.after.ColorSpace = "/DeviceRGB"
                          /\ e.after.data.mode =
                                 (IF o.ColorSpace = "/DeviceGray" THEN "L" ELSE "RGB")
                     ELSE e.after = o

\* the raw-sample route has been taken by an unfiltered image of a color
\* space that is none of the three device spaces, read as three components
C19_Witness ==
    \E i \in 1..Len(log[1]) :
        LET e == log[1][i]
        IN  /\ Candidate(e) /\ e.seen.ColorSpace = "/ICCBased"
            /\ e.seen.Filter = "absent"
            /\ e.seen.data.len = e.seen.Width * e.seen.Height * 3
            /\ e.after.Filter = "/DCTDecode" /\ e.after.data.mode = "RGB"

\* ------------------------------------------------------------------- C20
\* the objects named by pages whose /XObject dictionary can be read
NamedOnReadablePages(d) ==
    UNION {{d.pages[p].xobjects[k] : k \in 1..Len(d.pages[p].xobjects)} :
           p \in {n \in 1..Len(d.pages) : d.pages[n].res = "ok"}}

\* C20: a page whose resources make the scan raise, or that has no
\* /Resources or no /XObject, contributes no entry; the error is not
\* raised to compress_pdf; an object that only such pages name is never
\* changed; and once the loop is over every page has been begun and every
\* entry of every readable page, also of those after a malformed one, has
\* been looked at and, if sound, rewritten.
C20_MalformedPageIsSkipped ==
    \A c \in Calls :
        /\ error[c] # "page"
        /\ \A i \in 1..Len(log[c]) : Pages(c)[log[c][i].page].res = "ok"
        /\ \A id \in ObjIds \ NamedOnReadablePages(input[c]) : Unmodified(c, id)
        /\ LoopOver(c) =>
              /\ Count(events[c], "page") = Len(Pages(c))
              /\ \A p \in 1..Len(Pages(c)) :
                    Pages(c)[p].res = "ok" =>
                          \A k \in 1..Len(Pages(c)[p].xobjects) :
                              \E i \in 1..Len(log[c]) :
                                  /\ log[c][i].page = p /\ log[c][i].key = k
                                  /\ log[c][i].obj = Pages(c)[p].xobjects[k]
                                  /\ Sound(log[c][i].seen, settings[c]) =>
                                         log[c][i].after.data.gen
                                             = log[c][i].seen.data.gen + 1

\* the first page is malformed and names a sound image that stays as it
\* was; the second page is readable and its image has been rewritten
C20_Witness ==
    /\ LoopOver(1) /\ Len(Pages(1)) = 2
    /\ Pages(1)[1].res = "malformed" /\ Pages(1)[2] = Page("ok", <<1>>)
    /\ Sound(Original(1, 2), settings[1]) /\ Unmodified(1, 2)
    /\ Rewritten(1, 1)

\* ------------------------------------------------------------------- C12
\* a part the claim speaks of: a number, or two numbers around one dash
IsNumber(t) == t # <<>> /\ \A i \in 1..Len(t) : t[i] \in DigitChars
IsNumberOrRange(t) ==
    \/ IsNumber(t)
    \/ /\ Cardinality(DashAt(t)) = 1
       /\ IsNumber(StartText(t)) /\ IsNumber(EndText(t))

\* the 1-based page numbers a part names
Named(t) ==
    IF IsNumber(t) THEN {ToInt(t)}
    ELSE {n \in ToInt(StartText(t))..ToInt(EndText(t)) : TRUE}

\* the indices the claim gives for a specification: those of the named
\* pages that lie in 1..total
Claimed(ps, total) ==
    IF IsAll(ps) THEN {n - 1 : n \in 1..total}
    ELSE {n - 1 : n \in {m \in UNION {Named(ps[i]) : i \in 1..Len(ps)} :
                              1 <= m /\ m <= total}}

\* C12 as claimed: for a specification that is all, or whose parts are
\* numbers n and ranges a-b, parse_page_range raises nothing and returns
\* the indices n - 1 of the named pages that lie in 1..total_pages, each
\* once, in ascending order, all within 0..total_pages - 1.
C12_ParsedIndicesInRange ==
    (IsAll(pages_str) \/ \A i \in 1..Len(pages_str) : IsNumberOrRange(pages_str[i]))
        => /\ spc # "raised"
           /\ spc \in {"write", "done"} =>
                 /\ \A i \in 1..Len(page_indices) :
                       0 <= page_indices[i] /\ page_indices[i] < total_pages
                 /\ \A i \in 1..Len(page_indices) - 1 :
                       page_indices[i] < page_indices[i + 1]
                 /\ Elements(page_indices) = Claimed(pages_str, total_pages)

\* ------------------------------------------------------------------- C21
\* the turns of the loop of call c that changed object id
RewritingTurns(c, id) ==
    {i \in 1..Len(log[c]) :
        log[c][i].obj = id /\ log[c][i].after # log[c][i].seen}

\* C21 as claimed: an image object, also one that several pages or several
\* names of one page refer to, is recompressed by at most one turn of the
\* loop of a call, so its payload is of the first generation and, with a
\* scale s < 1.0 and a JPEG of the declared size, its Width and Height
\* are floor(original * s).
C21_SharedImageRecompressedOnce ==
    \A c \in Calls : \A id \in ObjIds :
        /\ Cardinality(RewritingTurns(c, id)) <= 1
        /\ objs[c][id].data.gen <= Original(c, id).data.gen + 1
        /\ ( /\ settings[c].scale < 100
             /\ Consistent(Original(c, id))
             /\ Rewritten(c, id) )
           => /\ objs[c][id].Width = FloorScaled(Original(c, id).Width, settings[c])
              /\ objs[c][id].Height = FloorScaled(Original(c, id).Height, settings[c])

\* ------------------------------------------------------------------- C22
\* the components of a JPEG of this mode, and of a device color space
JpegComponents(mode) ==
    IF mode = "L" THEN 1 ELSE IF mode = "CMYK" THEN 4 ELSE 3
DeclaredComponents(cs) ==
    IF cs = "/DeviceGray" THEN 1 ELSE IF cs = "/DeviceCMYK" THEN 4 ELSE 3

\* C22 as claimed: a turn on which the raw-sample path succeeds on a
\* DeviceGray, DeviceRGB or DeviceCMYK image leaves a /ColorSpace with as
\* many components as the JPEG payload it wrote.
C22_ColorSpaceMatchesPayload ==
    \A c \in Calls : \A i \in 1..Len(log[c]) :
        LET e == log[c][i]
        IN  ( /\ RawPathSucceeds(e.seen, settings[c])
              /\ e.seen.ColorSpace \in {"/DeviceGray", "/DeviceRGB", "/DeviceCMYK"} )
            => DeclaredComponents(e.after.ColorSpace)
                   = JpegComponents(e.after.data.mode)

\* ------------------------------------------------------------------- C25
\* C25 as claimed: for every pages argument and every total >= 0,
\* _parse_pages returns only indices p with 0 <= p < total, and the loop
\* signs only pages the document has.
C25_ParsedPagesInDocument ==
    /\ sign_pc \in {"loop", "done"} =>
           \A p \in pages_to_sign : 0 <= p /\ p < sign_total
    /\ \A p \in signed : 0 <= p /\ p < sign_total

\* ------------------------------------------------------------------- C23
\* the indices of the uploads api_merge accepts, in upload order
RECURSIVE AcceptedFrom(_, _)
AcceptedFrom(fs, k) ==
    IF k > Len(fs) THEN <<>>
    ELSE (IF allowed_file(fs[k]) THEN <<k>> ELSE <<>>) \o AcceptedFrom(fs, k + 1)

\* the pages of the accepted uploads of request r, in upload order
RECURSIVE Concatenated(_, _)
Concatenated(r, ks) ==
    IF ks = <<>> THEN <<>>
    ELSE Content(r, Head(ks)) \o Concatenated(r, Tail(ks))

\* C23 as claimed: when merge_pdfs has run for a merge request, pdf_paths
\* holds one path per accepted upload, no path twice, the file at the
\* j-th path is the j-th accepted upload, also when two uploads have the
\* same sanitised filename, and merged.pdf, like the body sent, is the
\* accepted uploads one after the other in upload order.
C23_EachUploadAtItsOwnPath ==
    \A r \in Reqs :
        LET acc == AcceptedFrom(request[r].files, 1)
        IN  /\ (request[r].kind = "merge" /\ rpc[r] = "register") =>
                  /\ Len(pdf_paths[r]) = Len(acc)
                  /\ \A i, j \in 1..Len(pdf_paths[r]) :
                        i # j => pdf_paths[r][i] # pdf_paths[r][j]
                  /\ \A j \in 1..Len(acc) :
                        disk[temp_dir[r]].files[pdf_paths[r][j]]
                            = Content(r, acc[j])
                  /\ disk[temp_dir[r]].files[<<"merged", ".pdf">>]
                        = Concatenated(r, acc)
            /\ (request[r].kind = "merge" /\ status[r] = 200) =>
                  body[r] = Concatenated(r, acc)

\* ------------------------------------------------------------------- C24
\* the positions of a handler between get_temp_dir and its cleanup
HoldsDir == {"saving", "register", "archive", "send"}

====
